---- MODULE Spec2Model ----
(***************************************************************************)
(* Folio: FX exchange-timing analysis (domain/fx_analysis.py), the Telegram *)
(* notification adapter (infrastructure/notification.py) and the FX watch   *)
(* alert cycle behind POST /fx-watch/check and POST /fx-watch/alert         *)
(* (api/fx_watch_routes.py); the result caches, the technical and margin    *)
(* fetches, the RSI and scan_stock (logic.py), and the routes of the app of *)
(* main.py.                                                                 *)
(*                                                                          *)
(* Numbers.  Closes and rates are Python floats in the source; here a close *)
(* is an integer number of price units (60 stands for 60.0), so that        *)
(*   current_rate >= high * (1.0 - tolerance_pct / 100.0)                   *)
(* is  current_rate * 100 >= high * (100 - tolerance_pct),                  *)
(* with the rounding of the float product where the two sides meet; the     *)
(* percentage changes and the RSI are computed in binary64 (Python floats,  *)
(* below).  Time is a whole number of hours; reminder_interval_hours is in  *)
(* hours.                                                                   *)
(***************************************************************************)
EXTENDS Integers, Sequences, FiniteSets, TLC

VARIABLES
    watches,    \* FXWatchConfig rows: watch id -> record
    clock,      \* wall clock, hours
    cyc,        \* the alert cycles (requests to POST /fx-watch/alert) in flight
    sends,      \* number of calls made to send_telegram_message
    lost,       \* number of those calls that delivered nothing
    fires,      \* watch id -> the cycle times of its fired alerts, in order
    writes,     \* watch id -> number of writes to last_alerted_at
    runs,       \* number of alert cycles started so far
    edits,      \* number of requests to the CRUD routes of /fx-watch so far
    checked,    \* response of the last POST /fx-watch/check
    args,       \* arguments of the pure function under evaluation
    ret,        \* its return value
    cache,      \* logic.py: _signals_cache and _moat_cache
    plain,      \* the same two caches built with ttl=0 (cache disabled)
    upstream,   \* ticker -> what yfinance answers for it now
    mono,       \* time.monotonic(), seconds: the timer of the caches
    stocks,     \* the Stock table: ticker -> row
    thr,        \* threads of the server: thread -> position and locals
    thesislog,  \* the ThesisLog table: ticker -> versions of its rows, by id
    removallog, \* the RemovalLog table: ticker -> number of its rows
    requests    \* requests to the stock endpoints of main.py started so far

vars == <<watches, clock, cyc, sends, lost, fires, writes, runs, edits,
          checked, args, ret, cache, plain, upstream, mono, stocks, thr,
          thesislog, removallog, requests>>

logVars == <<thesislog, removallog, requests>>

scanVars == <<cache, plain, upstream, mono, stocks, thr, logVars>>

dispatcherVars == <<watches, clock, cyc, sends, lost, fires, writes, runs,
                    edits, checked>>

(***************************************************************************)
(* Bounds                                                                   *)
(***************************************************************************)
MaxLen == 5         \* longest history given to assess_exchange_timing
MaxHighLen == 3     \* longest history given to is_recent_high on its own
MaxRuns == 2        \* alert cycles started in one behaviour
MaxEdits == 1       \* requests to the CRUD routes of /fx-watch in one behaviour

(***************************************************************************)
(* domain/fx_analysis.py                                                    *)
(***************************************************************************)

\* Python's history[-n:] for 0 <= n <= len(history); -0 is 0, so n = 0
\* gives the whole list.
PyLastSlice(history, n) ==
    IF n = 0 THEN history
    ELSE SubSeq(history, Len(history) - n + 1, Len(history))

\* faulty variant: the first lookback_days points instead of the last
RecentWindowFirst(history, lookback_days) ==
    IF Len(history) >= lookback_days /\ lookback_days >= 1
    THEN SubSeq(history, 1, lookback_days)
    ELSE history

\* recent = history[-lookback_days:] if len(history) >= lookback_days else history
RecentWindow(history, lookback_days) ==
    IF Len(history) >= lookback_days
    THEN PyLastSlice(history, lookback_days)
    ELSE history

\* max(d["close"] for d in recent), recent non-empty
RECURSIVE MaxClose(_)
MaxClose(recent) ==
    IF Len(recent) = 1 THEN recent[1]
    ELSE LET m == MaxClose(Tail(recent))
         IN  IF recent[1] >= m THEN recent[1] ELSE m

\* The float 1.0 - tolerance_pct / 100.0 for a whole tolerance_pct in 0..100
\* is (100 - tolerance_pct) / 100 + FloatErr[tolerance_pct + 1] / (100 * 2^51)
FloatErr ==
    <<0, -2, -4, -6, -8, -10, -12, -14, 9, 7, 5, 3, 1, -1, -3, -5, -7, -9, 14, 12,
       10, 8, 6, 4, 2, 0, -2, -4, -6, -8, -10, -12, -14, -16, -18, 5, 3, 1, -1, -3,
       -5, 18, 16, 14, 12, 10, 8, 6, 4, 2, 0, -2, -4, -6, -8, -10, -12, 11, 9, 7,
       5, 3, 1, -1, -3, -5, -7, -9, -11, 12, 10, 8, 6, 4, 2, 0, -2, -4, -6, -8,
       -10, -12, 11, 9, 7, 5, 3, 1, -1, -3, -5, -7, -9, -11, 12, 10, 8, 6, 4, 2,
       0>>

\* the largest power of two not above m, for m >= 1
RECURSIVE Pow2Floor(_)
Pow2Floor(m) == IF m < 2 THEN 1 ELSE 2 * Pow2Floor(m \div 2)

\* current_rate >= high * (1.0 - tolerance_pct / 100.0) in double precision,
\* for whole rates: off the exact threshold the rounding does not matter; on
\* it, the product is the next float above the threshold when the error of
\* the factor, times high, is more than half a unit in the last place
FloatAtLeast(current_rate, high, tolerance_pct) ==
    IF current_rate * 100 # high * (100 - tolerance_pct)
    THEN current_rate * 100 > high * (100 - tolerance_pct)
    ELSE ~(high * FloatErr[tolerance_pct + 1] > 25 * Pow2Floor(current_rate))

\* faulty variant: near-high only within the tolerance band on both sides
is_recent_high_above(current_rate, history, lookback_days, tolerance_pct) ==
    IF history = <<>> THEN <<FALSE, 0>>
    ELSE LET high == MaxClose(RecentWindow(history, lookback_days))
         IN  IF high <= 0 THEN <<FALSE, 0>>
             ELSE <<current_rate * 100 <= high * (100 + tolerance_pct)
                      /\ FloatAtLeast(current_rate, high, tolerance_pct), high>>

is_recent_high(current_rate, history, lookback_days, tolerance_pct) ==
    IF history = <<>> THEN <<FALSE, 0>>
    ELSE LET high == MaxClose(RecentWindow(history, lookback_days))
         IN  IF high <= 0 THEN <<FALSE, 0>>
             ELSE <<FloatAtLeast(current_rate, high, tolerance_pct), high>>

\* faulty variant: a flat pair counts as an increase
RECURSIVE CountBackFlat(_, _, _)
CountBackFlat(history, i, count) ==
    IF i < 2 THEN count
    ELSE IF history[i] >= history[i - 1]
         THEN CountBackFlat(history, i - 1, count + 1)
         ELSE count

\* for i in range(len(history) - 1, 0, -1), 0-based i; here i is 1-based
RECURSIVE CountBack(_, _, _)
CountBack(history, i, count) ==
    IF i < 2 THEN count
    ELSE IF history[i] > history[i - 1]
         THEN CountBack(history, i - 1, count + 1)
         ELSE count

count_consecutive_increases(history) ==
    IF Len(history) < 2 THEN 0
    ELSE CountBack(history, Len(history), 0)

DefaultTolerancePct == 2

\* recommendation_zh / reasoning_zh, by branch
RecNoHistory == "no history, cannot analyse"
RecConsider == "consider converting"
RecNearHigh == "near high, momentum insufficient"
RecRising == "rising but not yet at high"
RecNoSignal == "no signal"
ReasonNoHistory == "insufficient history"
ReasonConsider == "near high and rising"
ReasonNearHigh == "near high, too few increases"
ReasonRising == "rising, not near high"
ReasonNoSignal == "not near high, too few increases"

FXTimingResult(base, quote, rate, near_high, high, lookback_days, consec, consecutive_threshold, should_alert, rec, reason) ==
    [base_currency |-> base, quote_currency |-> quote, current_rate |-> rate,
     is_recent_high |-> near_high, lookback_high |-> high,
     lookback_days |-> lookback_days, consecutive_increases |-> consec,
     consecutive_threshold |-> consecutive_threshold,
     should_alert |-> should_alert,
     recommendation_zh |-> rec, reasoning_zh |-> reason]

\* faulty variant: alerts on either condition
assess_exchange_timing_either(base_currency, quote_currency, history, lookback_days, consecutive_threshold) ==
    IF history = <<>>
    THEN FXTimingResult(base_currency, quote_currency, 0, FALSE, 0,
                        lookback_days, 0, consecutive_threshold, FALSE,
                        RecNoHistory, ReasonNoHistory)
    ELSE LET current_rate == history[Len(history)]
             rh == is_recent_high(current_rate, history, lookback_days,
                                  DefaultTolerancePct)
             near_high == rh[1]
             high == rh[2]
             consec == count_consecutive_increases(history)
             should_alert == near_high \/ consec >= consecutive_threshold
             rec == IF should_alert THEN RecConsider
                    ELSE IF near_high THEN RecNearHigh
                    ELSE IF consec >= consecutive_threshold THEN RecRising
                    ELSE RecNoSignal
             reason == IF should_alert THEN ReasonConsider
                       ELSE IF near_high THEN ReasonNearHigh
                       ELSE IF consec >= consecutive_threshold THEN ReasonRising
                       ELSE ReasonNoSignal
         IN  FXTimingResult(base_currency, quote_currency, current_rate,
                            near_high, high, lookback_days, consec,
                            consecutive_threshold, should_alert, rec, reason)

\* faulty variant: no early return for an empty history
assess_exchange_timing_noguard(base_currency, quote_currency, history, lookback_days, consecutive_threshold) ==
    LET current_rate == IF history = <<>> THEN 0 ELSE history[Len(history)]
        rh == is_recent_high(current_rate, history, lookback_days,
                             DefaultTolerancePct)
        near_high == rh[1]
        high == rh[2]
        consec == count_consecutive_increases(history)
        should_alert == near_high /\ consec >= consecutive_threshold
        rec == IF should_alert THEN RecConsider
               ELSE IF near_high THEN RecNearHigh
               ELSE IF consec >= consecutive_threshold THEN RecRising
               ELSE RecNoSignal
        reason == IF should_alert THEN ReasonConsider
                  ELSE IF near_high THEN ReasonNearHigh
                  ELSE IF consec >= consecutive_threshold THEN ReasonRising
                  ELSE ReasonNoSignal
    IN  FXTimingResult(base_currency, quote_currency, current_rate,
                       near_high, high, lookback_days, consec,
                       consecutive_threshold, should_alert, rec, reason)

assess_exchange_timing(base_currency, quote_currency, history, lookback_days, consecutive_threshold) ==
    IF history = <<>>
    THEN FXTimingResult(base_currency, quote_currency, 0, FALSE, 0,
                        lookback_days, 0, consecutive_threshold, FALSE,
                        RecNoHistory, ReasonNoHistory)
    ELSE LET current_rate == history[Len(history)]
             rh == is_recent_high(current_rate, history, lookback_days,
                                  DefaultTolerancePct)
             near_high == rh[1]
             high == rh[2]
             consec == count_consecutive_increases(history)
             should_alert == near_high /\ consec >= consecutive_threshold
             rec == IF should_alert THEN RecConsider
                    ELSE IF near_high THEN RecNearHigh
                    ELSE IF consec >= consecutive_threshold THEN RecRising
                    ELSE RecNoSignal
             reason == IF should_alert THEN ReasonConsider
                       ELSE IF near_high THEN ReasonNearHigh
                       ELSE IF consec >= consecutive_threshold THEN ReasonRising
                       ELSE ReasonNoSignal
         IN  FXTimingResult(base_currency, quote_currency, current_rate,
                            near_high, high, lookback_days, consec,
                            consecutive_threshold, should_alert, rec, reason)

(***************************************************************************)
(* infrastructure/notification.py                                           *)
(***************************************************************************)

\* send_telegram_message(text).  token_set: TELEGRAM_BOT_TOKEN and
\* TELEGRAM_CHAT_ID are configured; post_raises: http_requests.post raises
\* (timeout, connection error).  Both failures are logged and swallowed, so
\* the call returns None to its caller in every case.
send_telegram_message(token_set, post_raises) ==
    [delivered |-> token_set /\ ~post_raises, raised |-> FALSE]

(***************************************************************************)
(* logic.py: the two result caches (cachetools.TTLCache), the fetches of    *)
(* get_technical_signals and check_moat, and scan_stock.                    *)
(*                                                                          *)
(* A TTLCache is the fields the library keeps: data (key -> value), links    *)
(* (one [key, expires] per key, in order of expiry), order (the keys, least *)
(* recently used first) and currsize.  Time is the cache's timer            *)
(* (time.monotonic), in seconds.  Prices, averages and RSI are whole        *)
(* numbers, margins are hundredths of a percent, and a value that can be    *)
(* None is PyNone or the number wrapped in PyFloat or PyInt.                *)
(***************************************************************************)
CacheTTL == 300             \* TTLCache(maxsize=200, ttl=300)
CacheMaxSize == 200         \* TTLCache(maxsize=200, ttl=300)
Kinds == {"signals", "moat"}
Tickers == {"NVDA", "TSM", "AMD"}
PyNone == [none |-> TRUE]   \* None in place of a dict or a float
PyNaN == [none |-> FALSE, nan |-> TRUE]     \* the float nan
NoCall == [fn |-> "none"]   \* no call has returned yet

\* a Python float that is neither None nor nan, and a Python int
PyFloat(value) == [none |-> FALSE, value |-> value]
PyInt(value) == [none |-> FALSE, value |-> value]

EmptyTTLCache == [data |-> <<>>, links |-> <<>>, order |-> <<>>, currsize |-> 0]

Restrict(f, S) == [k \in S |-> f[k]]

LinkKeys(links) == {links[i].key : i \in 1..Len(links)}

\* faulty variant: an entry is still served at the instant it expires
TTLContainsInclusive(c, key, time) ==
    \E i \in 1..Len(c.links) :
        c.links[i].key = key /\ time <= c.links[i].expires

\* faulty variant: an entry stops being served half a TTL early
TTLContainsEarly(c, key, time) ==
    \E i \in 1..Len(c.links) :
        c.links[i].key = key /\ time + 150 < c.links[i].expires

\* TTLCache.__contains__
TTLContains(c, key, time) ==
    \E i \in 1..Len(c.links) :
        c.links[i].key = key /\ time < c.links[i].expires

\* OrderedDict.move_to_end(key), as TTLCache.__getlink calls it
MoveToEnd(order, key) == Append(SelectSeq(order, LAMBDA k : k # key), key)

\* TTLCache.get(key): None when the key is absent or its link has expired;
\* a hit makes the key the most recently used
TTLGet(c, key, time) ==
    IF TTLContains(c, key, time)
    THEN [value |-> c.data[key], cache |-> [c EXCEPT !.order = MoveToEnd(@, key)]]
    ELSE [value |-> PyNone, cache |-> c]

\* TTLCache.expire(time): drops every link with not (time < expires)
TTLExpire(c, time) ==
    LET live == SelectSeq(c.links, LAMBDA l : time < l.expires)
        gone == LinkKeys(c.links) \ LinkKeys(live)
    IN  [data |-> Restrict(c.data, DOMAIN c.data \ gone),
         links |-> live,
         order |-> SelectSeq(c.order, LAMBDA k : k \notin gone),
         currsize |-> c.currsize - Cardinality(gone)]

\* TTLCache.popitem on a cache just expired: drops the least recently used
\* key
TTLPopItem(c) ==
    [data |-> Restrict(c.data, DOMAIN c.data \ {Head(c.order)}),
     links |-> SelectSeq(c.links, LAMBDA l : l.key # Head(c.order)),
     order |-> Tail(c.order),
     currsize |-> c.currsize - 1]

\* Cache.__setitem__: while self.currsize + size > maxsize: self.popitem()
RECURSIVE MakeRoom(_, _)
MakeRoom(c, maxsize) ==
    IF c.currsize + 1 > maxsize /\ c.order # <<>>
    THEN MakeRoom(TTLPopItem(c), maxsize)
    ELSE c

\* Cache.__setitem__
CacheSetItem(c, key, value, maxsize) ==
    LET room == IF key \notin DOMAIN c.data THEN MakeRoom(c, maxsize) ELSE c
        diffsize == IF key \in DOMAIN room.data THEN 0 ELSE 1
    IN  [room EXCEPT
            !.data = [k \in DOMAIN room.data \cup {key} |->
                         IF k = key THEN value ELSE room.data[k]],
            !.currsize = @ + diffsize]

\* TTLCache.__setitem__: expire, store, make the key the most recently used
\* and move its link to the end with expires = time + ttl
TTLSetItem(c, key, value, time, ttl, maxsize) ==
    LET s == CacheSetItem(TTLExpire(c, time), key, value, maxsize)
        others == SelectSeq(s.links, LAMBDA l : l.key # key)
    IN  [s EXCEPT !.links = Append(others, [key |-> key, expires |-> time + ttl]),
                  !.order = MoveToEnd(@, key)]

\* what stock.history(period="1y") gives: an exception, or the rows; the
\* closes are summarised by the numbers the code computes from them: the
\* last close, _compute_rsi(closes), which is a float for the 60 closes and
\* more it is called with, and the means of the last 200 and 60 closes
Raises == [raises |-> TRUE]
Hist(rows, price, rsi, mean200, mean60) == [rows |-> rows, price |-> price, rsi |-> rsi, mean200 |-> mean200, mean60 |-> mean60]

\* what stock.quarterly_financials gives: an exception, None or empty, or
\* the columns with what _get_gross_margin returns for the latest and for
\* the year-ago column: PyNone (no such row, or a revenue of 0), PyNaN (a
\* cell that is NaN), or the margin in hundredths of a percent, as
\* round(x, 2) leaves it: PyFloat(4000) is 40.0 and PyFloat(-1) is -0.01
NoFinancials == [empty |-> TRUE]
Financials(columns, current_margin, previous_margin) == [columns |-> columns, current_margin |-> current_margin, previous_margin |-> previous_margin]

MinRows == 60
LongWindow == 200
Oversold == 30
Overbought == 70
MinQuarters == 5

\* a message: its wording (kind), the ticker and the numbers it quotes
Text(kind, ticker, a, b) == [kind |-> kind, ticker |-> ticker, a |-> a, b |-> b]

ErrShortHistory(ticker) == [error |-> Text("insufficient history", ticker, 0, 0)]
ErrSignals(ticker) == [error |-> Text("cannot fetch signals", ticker, 0, 0)]

\* faulty variant: the error results are stored in the cache too
FetchSignalsCacheFail(c, ticker, hist, time, ttl, maxsize) ==
    IF hist = Raises
    THEN [value |-> ErrSignals(ticker), cache |-> TTLSetItem(c, ticker, ErrSignals(ticker), time, ttl, maxsize), fetched |-> TRUE, raised |-> FALSE]
    ELSE IF hist.rows < MinRows
    THEN [value |-> ErrShortHistory(ticker), cache |-> TTLSetItem(c, ticker, ErrShortHistory(ticker), time, ttl, maxsize), fetched |-> TRUE, raised |-> FALSE]
    ELSE LET current_price == PyFloat(hist.price)
             rsi == PyFloat(hist.rsi)
             ma200 == IF hist.rows >= LongWindow THEN PyFloat(hist.mean200) ELSE PyNone
             ma60 == PyFloat(hist.mean60)
             status ==
                 (IF rsi = PyNone THEN <<>>
                  ELSE IF rsi.value < Oversold THEN <<"rsi oversold">>
                  ELSE IF rsi.value > Overbought THEN <<"rsi overbought">>
                  ELSE <<"rsi neutral">>)
                 \o (IF ma200 = PyNone THEN <<"no 200MA">>
                     ELSE IF current_price.value < ma200.value THEN <<"below 200MA">>
                     ELSE <<"above 200MA">>)
                 \o (IF current_price.value < ma60.value THEN <<"below 60MA">>
                     ELSE <<"above 60MA">>)
             result == [ticker |-> ticker, price |-> current_price,
                        rsi |-> rsi, ma200 |-> ma200, ma60 |-> ma60,
                        status |-> status]
         IN  [value |-> result,
              cache |-> TTLSetItem(c, ticker, result, time, ttl, maxsize),
              fetched |-> TRUE, raised |-> FALSE]

\* faulty variant: the result carries the time of the fetch
FetchSignalsStamped(c, ticker, hist, time, ttl, maxsize) ==
    IF hist = Raises
    THEN [value |-> ErrSignals(ticker), cache |-> c, fetched |-> TRUE, raised |-> FALSE]
    ELSE IF hist.rows < MinRows
    THEN [value |-> ErrShortHistory(ticker), cache |-> c, fetched |-> TRUE, raised |-> FALSE]
    ELSE LET current_price == PyFloat(hist.price)
             rsi == PyFloat(hist.rsi)
             ma200 == IF hist.rows >= LongWindow THEN PyFloat(hist.mean200) ELSE PyNone
             ma60 == PyFloat(hist.mean60)
             status ==
                 (IF rsi = PyNone THEN <<>>
                  ELSE IF rsi.value < Oversold THEN <<"rsi oversold">>
                  ELSE IF rsi.value > Overbought THEN <<"rsi overbought">>
                  ELSE <<"rsi neutral">>)
                 \o (IF ma200 = PyNone THEN <<"no 200MA">>
                     ELSE IF current_price.value < ma200.value THEN <<"below 200MA">>
                     ELSE <<"above 200MA">>)
                 \o (IF current_price.value < ma60.value THEN <<"below 60MA">>
                     ELSE <<"above 60MA">>)
             result == [ticker |-> ticker, price |-> current_price,
                        rsi |-> rsi, ma200 |-> ma200, ma60 |-> ma60,
                        status |-> status, at |-> time]
         IN  [value |-> result,
              cache |-> TTLSetItem(c, ticker, result, time, ttl, maxsize),
              fetched |-> TRUE, raised |-> FALSE]

\* faulty variant: no except clause, the exception of the fetch propagates
FetchSignalsUnguarded(c, ticker, hist, time, ttl, maxsize) ==
    IF hist = Raises
    THEN [value |-> ErrSignals(ticker), cache |-> c, fetched |-> TRUE, raised |-> TRUE]
    ELSE IF hist.rows < MinRows
    THEN [value |-> ErrShortHistory(ticker), cache |-> c, fetched |-> TRUE, raised |-> FALSE]
    ELSE LET current_price == PyFloat(hist.price)
             rsi == PyFloat(hist.rsi)
             ma200 == IF hist.rows >= LongWindow THEN PyFloat(hist.mean200) ELSE PyNone
             ma60 == PyFloat(hist.mean60)
             status ==
                 (IF rsi = PyNone THEN <<>>
                  ELSE IF rsi.value < Oversold THEN <<"rsi oversold">>
                  ELSE IF rsi.value > Overbought THEN <<"rsi overbought">>
                  ELSE <<"rsi neutral">>)
                 \o (IF ma200 = PyNone THEN <<"no 200MA">>
                     ELSE IF current_price.value < ma200.value THEN <<"below 200MA">>
                     ELSE <<"above 200MA">>)
                 \o (IF current_price.value < ma60.value THEN <<"below 60MA">>
                     ELSE <<"above 60MA">>)
             result == [ticker |-> ticker, price |-> current_price,
                        rsi |-> rsi, ma200 |-> ma200, ma60 |-> ma60,
                        status |-> status]
         IN  [value |-> result,
              cache |-> TTLSetItem(c, ticker, result, time, ttl, maxsize),
              fetched |-> TRUE, raised |-> FALSE]

\* get_technical_signals(ticker) after the miss: the try block, entered with
\* the cache as c and ending at time
FetchSignals(c, ticker, hist, time, ttl, maxsize) ==
    IF hist = Raises
    THEN [value |-> ErrSignals(ticker), cache |-> c, fetched |-> TRUE, raised |-> FALSE]
    ELSE IF hist.rows < MinRows
    THEN [value |-> ErrShortHistory(ticker), cache |-> c, fetched |-> TRUE, raised |-> FALSE]
    ELSE LET current_price == PyFloat(hist.price)
             rsi == PyFloat(hist.rsi)
             ma200 == IF hist.rows >= LongWindow THEN PyFloat(hist.mean200) ELSE PyNone
             ma60 == PyFloat(hist.mean60)
             status ==
                 (IF rsi = PyNone THEN <<>>
                  ELSE IF rsi.value < Oversold THEN <<"rsi oversold">>
                  ELSE IF rsi.value > Overbought THEN <<"rsi overbought">>
                  ELSE <<"rsi neutral">>)
                 \o (IF ma200 = PyNone THEN <<"no 200MA">>
                     ELSE IF current_price.value < ma200.value THEN <<"below 200MA">>
                     ELSE <<"above 200MA">>)
                 \o (IF current_price.value < ma60.value THEN <<"below 60MA">>
                     ELSE <<"above 60MA">>)
             result == [ticker |-> ticker, price |-> current_price,
                        rsi |-> rsi, ma200 |-> ma200, ma60 |-> ma60,
                        status |-> status]
         IN  [value |-> result,
              cache |-> TTLSetItem(c, ticker, result, time, ttl, maxsize),
              fetched |-> TRUE, raised |-> FALSE]

\* get_technical_signals(ticker) on cache c when the upstream answers hist:
\* the lookup at time, and after a miss the fetch, which takes wait seconds
get_technical_signals(c, ticker, hist, time, wait, ttl, maxsize) ==
    LET cached == TTLGet(c, ticker, time)
    IN  IF cached.value # PyNone
        THEN [value |-> cached.value, cache |-> cached.cache, fetched |-> FALSE, raised |-> FALSE]
        ELSE FetchSignals(c, ticker, hist, time + wait, ttl, maxsize)

MoatWarning(ticker, kind) == [ticker |-> ticker, warning |-> Text(kind, ticker, 0, 0)]

\* round(current_margin - previous_margin, 2): nan when either is nan
MarginChange(current_margin, previous_margin) ==
    IF current_margin = PyNaN \/ previous_margin = PyNaN
    THEN PyNaN
    ELSE PyFloat(current_margin.value - previous_margin.value)

\* x < bound for a float x: False when x is nan
Below(x, bound) == x # PyNaN /\ x.value < bound

\* the number a message quotes for a margin, and the wording of the
\* "margin stable" message, which reads "nan%" where a margin is nan
Quoted(margin) == IF margin = PyNaN THEN 0 ELSE margin.value
StableKind(change) == IF change = PyNaN THEN "margin stable (nan)" ELSE "margin stable"

\* faulty variant: an unchanged margin counts as a decline
FetchMoatNonStrict(c, ticker, fin, time, ttl, maxsize) ==
    IF fin = Raises
    THEN [value |-> MoatWarning(ticker, "cannot check margin"), cache |-> c, fetched |-> TRUE, raised |-> FALSE]
    ELSE IF fin = NoFinancials
    THEN [value |-> MoatWarning(ticker, "no quarterly data"), cache |-> c, fetched |-> TRUE, raised |-> FALSE]
    ELSE IF fin.columns < MinQuarters
    THEN [value |-> MoatWarning(ticker, "fewer than 5 quarters"), cache |-> c, fetched |-> TRUE, raised |-> FALSE]
    ELSE IF fin.current_margin = PyNone \/ fin.previous_margin = PyNone
    THEN [value |-> MoatWarning(ticker, "no margin data"), cache |-> c, fetched |-> TRUE, raised |-> FALSE]
    ELSE LET change == MarginChange(fin.current_margin, fin.previous_margin)
             base == [ticker |-> ticker,
                      current_margin |-> fin.current_margin,
                      previous_margin |-> fin.previous_margin,
                      change |-> change]
             result == IF Below(change, 0) \/ change = PyFloat(0)
                       THEN [warning |-> Text("margin deteriorating", ticker, Quoted(fin.current_margin), Quoted(fin.previous_margin))] @@ base
                       ELSE [status |-> Text(StableKind(change), ticker, Quoted(fin.current_margin), Quoted(fin.previous_margin))] @@ base
         IN  [value |-> result,
              cache |-> TTLSetItem(c, ticker, result, time, ttl, maxsize),
              fetched |-> TRUE, raised |-> FALSE]

\* check_moat(ticker) after the miss: the try block, entered with the cache
\* as c and ending at time
FetchMoat(c, ticker, fin, time, ttl, maxsize) ==
    IF fin = Raises
    THEN [value |-> MoatWarning(ticker, "cannot check margin"), cache |-> c, fetched |-> TRUE, raised |-> FALSE]
    ELSE IF fin = NoFinancials
    THEN [value |-> MoatWarning(ticker, "no quarterly data"), cache |-> c, fetched |-> TRUE, raised |-> FALSE]
    ELSE IF fin.columns < MinQuarters
    THEN [value |-> MoatWarning(ticker, "fewer than 5 quarters"), cache |-> c, fetched |-> TRUE, raised |-> FALSE]
    ELSE IF fin.current_margin = PyNone \/ fin.previous_margin = PyNone
    THEN [value |-> MoatWarning(ticker, "no margin data"), cache |-> c, fetched |-> TRUE, raised |-> FALSE]
    ELSE LET change == MarginChange(fin.current_margin, fin.previous_margin)
             base == [ticker |-> ticker,
                      current_margin |-> fin.current_margin,
                      previous_margin |-> fin.previous_margin,
                      change |-> change]
             result == IF Below(change, 0)
                       THEN [warning |-> Text("margin deteriorating", ticker, Quoted(fin.current_margin), Quoted(fin.previous_margin))] @@ base
                       ELSE [status |-> Text(StableKind(change), ticker, Quoted(fin.current_margin), Quoted(fin.previous_margin))] @@ base
         IN  [value |-> result,
              cache |-> TTLSetItem(c, ticker, result, time, ttl, maxsize),
              fetched |-> TRUE, raised |-> FALSE]

\* check_moat(ticker) on cache c when the upstream answers fin
check_moat(c, ticker, fin, time, wait, ttl, maxsize) ==
    LET cached == TTLGet(c, ticker, time)
    IN  IF cached.value # PyNone
        THEN [value |-> cached.value, cache |-> cached.cache, fetched |-> FALSE, raised |-> FALSE]
        ELSE FetchMoat(c, ticker, fin, time + wait, ttl, maxsize)

Categories == {"Trend_Setter", "Moat", "Growth"}

\* faulty variant: the growth check looks at the long average
ScanAlertsLong(ticker, category, value) ==
    IF category = "Trend_Setter"
    THEN IF "error" \notin DOMAIN value
         THEN (IF value.rsi # PyNone /\ value.rsi.value < Oversold
               THEN <<Text("RSI oversold", ticker, value.rsi.value, 0)>>
               ELSE <<>>)
              \o (IF value.ma200 # PyNone /\ value.price # PyNone
                     /\ value.price.value < value.ma200.value
                  THEN <<Text("below 200MA", ticker, value.price.value, value.ma200.value)>>
                  ELSE <<>>)
         ELSE <<value.error>>
    ELSE IF category = "Moat"
    THEN IF "warning" \in DOMAIN value THEN <<value.warning>> ELSE <<>>
    ELSE IF category = "Growth"
    THEN IF "error" \notin DOMAIN value
         THEN IF value.ma200 # PyNone /\ value.price # PyNone
                 /\ value.price.value < value.ma200.value
              THEN <<Text("below 60MA", ticker, value.price.value, value.ma60.value)>>
              ELSE <<>>
         ELSE <<value.error>>
    ELSE <<>>

\* scan_stock(ticker, category) after its call of get_technical_signals or
\* check_moat returned value: the alerts of the category's checks
ScanAlerts(ticker, category, value) ==
    IF category = "Trend_Setter"
    THEN IF "error" \notin DOMAIN value
         THEN (IF value.rsi # PyNone /\ value.rsi.value < Oversold
               THEN <<Text("RSI oversold", ticker, value.rsi.value, 0)>>
               ELSE <<>>)
              \o (IF value.ma200 # PyNone /\ value.price # PyNone
                     /\ value.price.value < value.ma200.value
                  THEN <<Text("below 200MA", ticker, value.price.value, value.ma200.value)>>
                  ELSE <<>>)
         ELSE <<value.error>>
    ELSE IF category = "Moat"
    THEN IF "warning" \in DOMAIN value THEN <<value.warning>> ELSE <<>>
    ELSE IF category = "Growth"
    THEN IF "error" \notin DOMAIN value
         THEN IF value.ma60 # PyNone /\ value.price # PyNone
                 /\ value.price.value < value.ma60.value
              THEN <<Text("below 60MA", ticker, value.price.value, value.ma60.value)>>
              ELSE <<>>
         ELSE <<value.error>>
    ELSE <<>>

\* the cached function scan_stock calls for a category
CheckOf(category) == IF category = "Moat" THEN "check_moat" ELSE "get_technical_signals"

\* scan_stock(ticker, category) on the two caches, with no other call in
\* between, when the upstream of the ticker answers snap = [hist, fin]
scan_stock(caches, ticker, category, snap, time, wait, ttl, maxsize) ==
    IF category \notin Categories
    THEN [alerts |-> <<>>, caches |-> caches, fetched |-> FALSE, raised |-> FALSE]
    ELSE IF CheckOf(category) = "check_moat"
    THEN LET r == check_moat(caches.moat, ticker, snap.fin, time, wait, ttl, maxsize)
         IN  [alerts |-> ScanAlerts(ticker, category, r.value),
              caches |-> [caches EXCEPT !.moat = r.cache],
              fetched |-> r.fetched, raised |-> r.raised]
    ELSE LET r == get_technical_signals(caches.signals, ticker, snap.hist, time, wait, ttl, maxsize)
         IN  [alerts |-> ScanAlerts(ticker, category, r.value),
              caches |-> [caches EXCEPT !.signals = r.cache],
              fetched |-> r.fetched, raised |-> r.raised]


\* what the upstream answers for one ticker
Snapshot(hist, fin) == [hist |-> hist, fin |-> fin]
Down == Snapshot(Raises, Raises)

NoStock == [category |-> "none", is_active |-> FALSE]

Threads == {1, 2}
IdleThread == [pc |-> "idle"]

\* the two log tables of a database whose stocks were each created and, when
\* inactive, deactivated once; no request counted yet
StoreLogs ==
    /\ thesislog = [t \in Tickers |-> IF stocks[t] = NoStock THEN <<>> ELSE IF stocks[t].is_active THEN <<1>> ELSE <<1, 2>>]
    /\ removallog = [t \in Tickers |-> IF stocks[t] # NoStock /\ ~stocks[t].is_active THEN 1 ELSE 0]
    /\ requests = 0

\* nothing cached, nothing tracked, nobody in the caches
QuietScan ==
    /\ cache = [k \in Kinds |-> EmptyTTLCache]
    /\ plain = [k \in Kinds |-> EmptyTTLCache]
    /\ upstream = [t \in Tickers |-> Down]
    /\ mono = 0
    /\ stocks = [t \in Tickers |-> NoStock]
    /\ StoreLogs
    /\ thr = [t \in Threads |-> IdleThread]


(***************************************************************************)
(* Calls in threads.  The request handlers run in the threads of the        *)
(* server's pool and POST /scan starts a thread of its own                  *)
(* (api/scan_routes.py); logic.py takes no lock.  A call of                 *)
(* get_technical_signals or check_moat is two steps of its thread: the      *)
(* lookup in the cache, and after a miss the fetch from the upstream with   *)
(* the store of the result.  Between the two, time passes and the other     *)
(* threads take steps.                                                      *)
(***************************************************************************)
MaxTicks == 3               \* time steps in one behaviour
TimeStep == 150             \* seconds in one time step (half a TTL)

\* time.monotonic() advances
Elapse ==
    /\ mono < MaxTicks * TimeStep
    /\ mono' = mono + TimeStep
    /\ UNCHANGED <<dispatcherVars, logVars, args, ret, cache, plain, upstream, stocks, thr>>

CachedFns == {"get_technical_signals", "check_moat"}
KindOf(fn) == IF fn = "check_moat" THEN "moat" ELSE "signals"
CacheOf(fn) == cache[KindOf(fn)]

\* a result that stands for a failed fetch or for missing data
IsFailure(value) ==
    \/ "error" \in DOMAIN value
    \/ "warning" \in DOMAIN value /\ "change" \notin DOMAIN value

\* the try block of fn(ticker) on cache c, when the upstream answers s
TryBlock(fn, c, ticker, s, time, ttl) ==
    IF fn = "check_moat"
    THEN FetchMoat(c, ticker, s.fin, time, ttl, CacheMaxSize)
    ELSE FetchSignals(c, ticker, s.hist, time, ttl, CacheMaxSize)

\* who calls: a request handler, or scan_stock for a stock of a category
Handler == [caller |-> "handler"]
ScanOf(category) == [caller |-> "scan_stock", category |-> category]

\* the last call to return was fn(ticker), and it returned a failure
FollowsFailure(fn, ticker) ==
    ret # NoCall /\ ret.fn = fn /\ ret.ticker = ticker /\ IsFailure(ret.value)

\* what is known of the call that returned last: the function and ticker,
\* its value, whether it went to the upstream and what the upstream
\* answered (None when it was not asked), whether it began right after a
\* failed call of the same function for the same ticker had returned
\* (retry), whether the cache held an unexpired entry of the ticker when the
\* call came back from the upstream (beside: the call's own lookup had
\* missed, so a call that overlapped it stored the entry), whether a call
\* served from the cache follows a failed call that came back beside such
\* an entry (overlap), and the caller, with the alerts scan_stock makes of
\* the value
Returned(fn, ticker, value, fetched, answer, retry, from) ==
    [fn |-> fn, ticker |-> ticker, value |-> value, fetched |-> fetched,
     answer |-> answer, retry |-> retry,
     beside |-> fetched /\ TTLContains(CacheOf(fn), ticker, mono),
     overlap |-> ~fetched /\ retry /\ ret.beside]
    @@ (IF from.caller = "scan_stock"
        THEN [alerts |-> ScanAlerts(ticker, from.category, value)] @@ from
        ELSE from)

\* fn(t) in thread th, its first step: "cached = cache.get(ticker)" and the
\* return of a hit (logic.py:70-73, :148-151)
CacheLookup(th, fn, t, from) ==
    \E cached \in {TTLGet(CacheOf(fn), t, mono)} :
        /\ thr[th] = IdleThread
        /\ cache' = [cache EXCEPT ![KindOf(fn)] = cached.cache]
        /\ IF cached.value # PyNone
           THEN /\ ret' = Returned(fn, t, cached.value, FALSE, PyNone, FollowsFailure(fn, t), from)
                /\ thr' = thr
           ELSE /\ thr' = [thr EXCEPT ![th] = [pc |-> fn \o ":fetch", ticker |-> t, retry |-> FollowsFailure(fn, t)] @@ from]
                /\ ret' = ret
        /\ UNCHANGED <<dispatcherVars, logVars, args, plain, upstream, mono, stocks>>

\* fn(t) in thread th, its second step after a miss: the try block with the
\* fetch, to which the upstream answers s, and the store (:75-136,
\* :153-228), at whatever time it is by then
FetchAndStore(th, fn, t, s, from) ==
    \E r \in {TryBlock(fn, CacheOf(fn), t, s, mono, CacheTTL)} :
        /\ thr[th].pc = fn \o ":fetch"
        /\ thr[th] = [pc |-> fn \o ":fetch", ticker |-> t, retry |-> thr[th].retry] @@ from
        /\ cache' = [cache EXCEPT ![KindOf(fn)] = r.cache]
        /\ ret' = Returned(fn, t, r.value, TRUE, s, thr[th].retry, from)
        /\ thr' = [thr EXCEPT ![th] = IdleThread]
        /\ UNCHANGED <<dispatcherVars, logVars, args, plain, upstream, mono, stocks>>

CachedCall(th, fn, t, s, from) ==
    \/ CacheLookup(th, fn, t, from)
    \/ FetchAndStore(th, fn, t, s, from)

\* get_technical_signals(t) and check_moat(t), called by a handler
GetTechnicalSignals(th, t, s) == CachedCall(th, "get_technical_signals", t, s, Handler)
CheckMoat(th, t, s) == CachedCall(th, "check_moat", t, s, Handler)

\* scan_stock(t, category), whose call is the one of its category's check
ScanStock(th, t, category, s) == CachedCall(th, CheckOf(category), t, s, ScanOf(category))

(***************************************************************************)
(* main.py: POST /scan                                                      *)
(***************************************************************************)
ScanResult(ticker, category, alerts) == [ticker |-> ticker, category |-> category, alerts |-> alerts]

\* select(Stock).where(Stock.is_active == True): the query names no order,
\* so the rows come in an order of the database's choosing
TickerOrders == {o \in Tickers \X Tickers \X Tickers : Cardinality({o[1], o[2], o[3]}) = Cardinality(Tickers)}

ActiveRows(table, order) ==
    LET active == SelectSeq(order, LAMBDA t : table[t].is_active)
    IN  [i \in 1..Len(active) |-> [ticker |-> active[i], category |-> table[active[i]].category]]

\* the text given to _send_telegram_message: the alerts, or "no alerts"
ScanMessage(all_alerts) ==
    IF all_alerts # <<>>
    THEN <<"scan alerts">> \o [i \in 1..Len(all_alerts) |-> all_alerts[i].kind]
    ELSE <<"no alerts">>

\* the loop of run_scan after scan_stock returned alerts for the first of
\* the stocks left: results.append, all_alerts.extend
Scanned(scan, alerts) ==
    [pc |-> "run_scan:scan_stock",
     stocks |-> Tail(scan.stocks),
     results |-> Append(scan.results, ScanResult(Head(scan.stocks).ticker, Head(scan.stocks).category, alerts)),
     all_alerts |-> scan.all_alerts \o alerts]

\* run_scan(session) in thread th: the query for the active stocks, which
\* gives them in some order; for each stock scan_stock, whose cached call is
\* a lookup and after a miss a fetch with the store; then the one Telegram
\* message of the scan, with the alerts or without (sends counts the calls
\* of _send_telegram_message).  An exception out of scan_stock would end the
\* loop and the request.
run_scan(th, order, limit) ==
    \/ /\ thr[th] = IdleThread
       /\ requests < limit
       /\ requests' = requests + 1
       /\ thr' = [thr EXCEPT ![th] = [pc |-> "run_scan:scan_stock", stocks |-> ActiveRows(stocks, order),
                                       results |-> <<>>, all_alerts |-> <<>>]]
       /\ UNCHANGED <<dispatcherVars, args, ret, cache, plain, upstream, mono, stocks, thesislog, removallog>>
    \/ /\ thr[th].pc = "run_scan:scan_stock"
       /\ thr[th].stocks # <<>>
       /\ \E stock \in {Head(thr[th].stocks)} :
          \E cached \in {TTLGet(CacheOf(CheckOf(stock.category)), stock.ticker, mono)} :
              /\ cache' = [cache EXCEPT ![KindOf(CheckOf(stock.category))] = cached.cache]
              /\ thr' = [thr EXCEPT ![th] =
                            IF cached.value # PyNone
                            THEN Scanned(thr[th], ScanAlerts(stock.ticker, stock.category, cached.value))
                            ELSE [thr[th] EXCEPT !.pc = "run_scan:fetch"]]
       /\ UNCHANGED <<dispatcherVars, logVars, args, ret, plain, upstream, mono, stocks>>
    \/ /\ thr[th].pc = "run_scan:fetch"
       /\ \E stock \in {Head(thr[th].stocks)} :
          \E r \in {TryBlock(CheckOf(stock.category), CacheOf(CheckOf(stock.category)), stock.ticker, upstream[stock.ticker], mono, CacheTTL)} :
              /\ cache' = [cache EXCEPT ![KindOf(CheckOf(stock.category))] = r.cache]
              /\ IF r.raised
                 THEN /\ thr' = [thr EXCEPT ![th] = IdleThread]
                      /\ ret' = [fn |-> "run_scan", aborted |-> TRUE, results |-> <<>>, message |-> <<>>, sends |-> 0]
                 ELSE /\ thr' = [thr EXCEPT ![th] = Scanned(thr[th], ScanAlerts(stock.ticker, stock.category, r.value))]
                      /\ ret' = ret
       /\ UNCHANGED <<dispatcherVars, logVars, args, plain, upstream, mono, stocks>>
    \/ /\ thr[th].pc = "run_scan:scan_stock"
       /\ thr[th].stocks = <<>>
       /\ ret' = [fn |-> "run_scan", aborted |-> FALSE, results |-> thr[th].results,
                  message |-> ScanMessage(thr[th].all_alerts), sends |-> 1]
       /\ thr' = [thr EXCEPT ![th] = IdleThread]
       /\ UNCHANGED <<dispatcherVars, logVars, args, cache, plain, upstream, mono, stocks>>

(***************************************************************************)
(* main.py: GET /stocks                                                     *)
(***************************************************************************)
StockResponse(ticker, category, signals) == [ticker |-> ticker, category |-> category, is_active |-> TRUE, signals |-> signals]

\* the loop of list_stocks after get_technical_signals returned signals for
\* the first of the stocks left: results.append
Listed(list, signals) ==
    [pc |-> "list_stocks:get_technical_signals",
     stocks |-> Tail(list.stocks),
     results |-> Append(list.results, StockResponse(Head(list.stocks).ticker, Head(list.stocks).category, signals))]

\* list_stocks(session) in thread th: the query for the active stocks, and
\* for each of them get_technical_signals, a lookup in _signals_cache and
\* after a miss the fetch with the store
list_stocks(th, order, limit) ==
    \/ /\ thr[th] = IdleThread
       /\ requests < limit
       /\ requests' = requests + 1
       /\ thr' = [thr EXCEPT ![th] = [pc |-> "list_stocks:get_technical_signals", stocks |-> ActiveRows(stocks, order), results |-> <<>>]]
       /\ UNCHANGED <<dispatcherVars, args, ret, cache, plain, upstream, mono, stocks, thesislog, removallog>>
    \/ /\ thr[th].pc = "list_stocks:get_technical_signals"
       /\ thr[th].stocks # <<>>
       /\ \E stock \in {Head(thr[th].stocks)} :
          \E cached \in {TTLGet(cache.signals, stock.ticker, mono)} :
              /\ cache' = [cache EXCEPT !.signals = cached.cache]
              /\ thr' = [thr EXCEPT ![th] =
                            IF cached.value # PyNone
                            THEN Listed(thr[th], cached.value)
                            ELSE [thr[th] EXCEPT !.pc = "list_stocks:fetch"]]
       /\ UNCHANGED <<dispatcherVars, logVars, args, ret, plain, upstream, mono, stocks>>
    \/ /\ thr[th].pc = "list_stocks:fetch"
       /\ \E stock \in {Head(thr[th].stocks)} :
          \E r \in {TryBlock("get_technical_signals", cache.signals, stock.ticker, upstream[stock.ticker], mono, CacheTTL)} :
              /\ cache' = [cache EXCEPT !.signals = r.cache]
              /\ thr' = [thr EXCEPT ![th] = Listed(thr[th], r.value)]
       /\ UNCHANGED <<dispatcherVars, logVars, args, ret, plain, upstream, mono, stocks>>
    \/ /\ thr[th].pc = "list_stocks:get_technical_signals"
       /\ thr[th].stocks = <<>>
       /\ ret' = [fn |-> "list_stocks", status |-> 200, results |-> thr[th].results]
       /\ thr' = [thr EXCEPT ![th] = IdleThread]
       /\ UNCHANGED <<dispatcherVars, logVars, args, cache, plain, upstream, mono, stocks>>

(***************************************************************************)
(* main.py: the routes of its FastAPI app other than POST /scan.  The app   *)
(* is built from the routes main.py defines itself; it includes no router.  *)
(*                                                                          *)
(* Each request runs in a thread of the server with a Session of its own    *)
(* on the one SQLite database.  A read outside a transaction sees what is   *)
(* committed; the first write of a session (a flush) takes SQLite's write   *)
(* lock and keeps it to the commit, and a session that cannot get the lock  *)
(* waits for it or gives up with "database is locked".  A position of a     *)
(* thread is "<handler>:<next statement>".                                  *)
(***************************************************************************)
\* payload.ticker.upper().  A symbol as a client writes it is the sequence
\* of its characters (ASCII here); str.upper() turns each of the letters a-z
\* into its capital, leaves every other character, and the result is the
\* ticker, a string
LowerLetters == <<"a", "b", "c", "d", "e", "f", "g", "h", "i", "j", "k", "l", "m", "n", "o", "p", "q", "r", "s", "t", "u", "v", "w", "x", "y", "z">>
UpperLetters == <<"A", "B", "C", "D", "E", "F", "G", "H", "I", "J", "K", "L", "M", "N", "O", "P", "Q", "R", "S", "T", "U", "V", "W", "X", "Y", "Z">>
Capital == [ch \in {LowerLetters[i] : i \in 1..Len(LowerLetters)} |-> UpperLetters[CHOOSE i \in 1..Len(LowerLetters) : LowerLetters[i] = ch]]
UpperChar(ch) == IF ch \in DOMAIN Capital THEN Capital[ch] ELSE ch

RECURSIVE Upper(_)
Upper(symbol) == IF symbol = <<>> THEN "" ELSE UpperChar(Head(symbol)) \o Upper(Tail(symbol))

\* select(func.max(ThesisLog.version)).where(ThesisLog.stock_ticker == ticker)
MaxVersion(versions) == IF versions = <<>> THEN PyNone ELSE PyInt(CHOOSE v \in {versions[i] : i \in 1..Len(versions)} : \A i \in 1..Len(versions) : versions[i] <= v)

\* what the client gets: 200, or the status of the HTTPException, or 500 for
\* an exception nothing handles
Response(fn, ticker, status) == [fn |-> fn, ticker |-> ticker, status |-> status]

\* another session has flushed and not yet committed
LockHeld(th) == \E o \in Threads \ {th} : thr[o].pc = "deactivate_ticker:commit"

\* create_ticker rejecting only a symbol whose stock is active (faulty)
create_ticker_active(th, symbol, category, limit) ==
    \/ /\ thr[th] = IdleThread
       /\ requests < limit
       /\ requests' = requests + 1
       /\ IF stocks[Upper(symbol)].is_active
          THEN /\ ret' = Response("create_ticker", Upper(symbol), 409)
               /\ thr' = thr
          ELSE /\ thr' = [thr EXCEPT ![th] = [pc |-> "create_ticker:commit", ticker |-> Upper(symbol), category |-> category]]
               /\ ret' = ret
       /\ UNCHANGED <<dispatcherVars, args, cache, plain, upstream, mono, stocks, thesislog, removallog>>
    \/ /\ thr[th].pc = "create_ticker:commit"
       /\ ~LockHeld(th)
       /\ IF stocks[thr[th].ticker] # NoStock
          THEN /\ ret' = Response("create_ticker", thr[th].ticker, 500)
               /\ UNCHANGED <<stocks, thesislog>>
          ELSE /\ stocks' = [stocks EXCEPT ![thr[th].ticker] = [category |-> thr[th].category, is_active |-> TRUE]]
               /\ thesislog' = [thesislog EXCEPT ![thr[th].ticker] = Append(@, 1)]
               /\ ret' = Response("create_ticker", thr[th].ticker, 200)
       /\ thr' = [thr EXCEPT ![th] = IdleThread]
       /\ UNCHANGED <<dispatcherVars, args, cache, plain, upstream, mono, removallog, requests>>
    \/ /\ thr[th].pc = "create_ticker:commit"
       /\ LockHeld(th)
       /\ ret' = Response("create_ticker", thr[th].ticker, 500)
       /\ thr' = [thr EXCEPT ![th] = IdleThread]
       /\ UNCHANGED <<dispatcherVars, args, cache, plain, upstream, mono, stocks, logVars>>

create_ticker(th, symbol, category, limit) ==
    \/ /\ thr[th] = IdleThread
       /\ requests < limit
       /\ requests' = requests + 1
       /\ IF stocks[Upper(symbol)] # NoStock
          THEN /\ ret' = Response("create_ticker", Upper(symbol), 409)
               /\ thr' = thr
          ELSE /\ thr' = [thr EXCEPT ![th] = [pc |-> "create_ticker:commit", ticker |-> Upper(symbol), category |-> category]]
               /\ ret' = ret
       /\ UNCHANGED <<dispatcherVars, args, cache, plain, upstream, mono, stocks, thesislog, removallog>>
    \/ /\ thr[th].pc = "create_ticker:commit"
       /\ ~LockHeld(th)
       /\ IF stocks[thr[th].ticker] # NoStock
          THEN /\ ret' = Response("create_ticker", thr[th].ticker, 500)
               /\ UNCHANGED <<stocks, thesislog>>
          ELSE /\ stocks' = [stocks EXCEPT ![thr[th].ticker] = [category |-> thr[th].category, is_active |-> TRUE]]
               /\ thesislog' = [thesislog EXCEPT ![thr[th].ticker] = Append(@, 1)]
               /\ ret' = Response("create_ticker", thr[th].ticker, 200)
       /\ thr' = [thr EXCEPT ![th] = IdleThread]
       /\ UNCHANGED <<dispatcherVars, args, cache, plain, upstream, mono, removallog, requests>>
    \/ /\ thr[th].pc = "create_ticker:commit"
       /\ LockHeld(th)
       /\ ret' = Response("create_ticker", thr[th].ticker, 500)
       /\ thr' = [thr EXCEPT ![th] = IdleThread]
       /\ UNCHANGED <<dispatcherVars, args, cache, plain, upstream, mono, stocks, logVars>>

create_thesis(th, symbol, limit) ==
    \/ /\ thr[th] = IdleThread
       /\ requests < limit
       /\ requests' = requests + 1
       /\ IF stocks[Upper(symbol)] = NoStock
          THEN /\ ret' = Response("create_thesis", Upper(symbol), 404)
               /\ thr' = thr
          ELSE /\ thr' = [thr EXCEPT ![th] = [pc |-> "create_thesis:max_version", ticker |-> Upper(symbol)]]
               /\ ret' = ret
       /\ UNCHANGED <<dispatcherVars, args, cache, plain, upstream, mono, stocks, thesislog, removallog>>
    \/ /\ thr[th].pc = "create_thesis:max_version"
       /\ LET max_version == MaxVersion(thesislog[thr[th].ticker])
          IN  thr' = [thr EXCEPT ![th] = [pc |-> "create_thesis:commit", ticker |-> thr[th].ticker,
                                          new_version |-> (IF max_version = PyNone \/ max_version.value = 0 THEN 0 ELSE max_version.value) + 1]]
       /\ UNCHANGED <<dispatcherVars, args, ret, cache, plain, upstream, mono, stocks, logVars>>
    \/ /\ thr[th].pc = "create_thesis:commit"
       /\ ~LockHeld(th)
       /\ thesislog' = [thesislog EXCEPT ![thr[th].ticker] = Append(@, thr[th].new_version)]
       /\ ret' = Response("create_thesis", thr[th].ticker, 200)
       /\ thr' = [thr EXCEPT ![th] = IdleThread]
       /\ UNCHANGED <<dispatcherVars, args, cache, plain, upstream, mono, stocks, removallog, requests>>
    \/ /\ thr[th].pc = "create_thesis:commit"
       /\ LockHeld(th)
       /\ ret' = Response("create_thesis", thr[th].ticker, 500)
       /\ thr' = [thr EXCEPT ![th] = IdleThread]
       /\ UNCHANGED <<dispatcherVars, args, cache, plain, upstream, mono, stocks, logVars>>

\* deactivate_ticker without the test of is_active (faulty)
deactivate_ticker_again(th, symbol, limit) ==
    \/ /\ thr[th] = IdleThread
       /\ requests < limit
       /\ requests' = requests + 1
       /\ IF stocks[Upper(symbol)] = NoStock
          THEN /\ ret' = Response("deactivate_ticker", Upper(symbol), 404)
               /\ thr' = thr
          ELSE IF FALSE
          THEN /\ ret' = Response("deactivate_ticker", Upper(symbol), 409)
               /\ thr' = thr
          ELSE /\ thr' = [thr EXCEPT ![th] = [pc |-> "deactivate_ticker:max_version", ticker |-> Upper(symbol)]]
               /\ ret' = ret
       /\ UNCHANGED <<dispatcherVars, args, cache, plain, upstream, mono, stocks, thesislog, removallog>>
    \/ /\ thr[th].pc = "deactivate_ticker:max_version"
       /\ ~LockHeld(th)
       /\ LET max_version == MaxVersion(thesislog[thr[th].ticker])
          IN  thr' = [thr EXCEPT ![th] = [pc |-> "deactivate_ticker:commit", ticker |-> thr[th].ticker,
                                          new_version |-> (IF max_version = PyNone \/ max_version.value = 0 THEN 0 ELSE max_version.value) + 1]]
       /\ UNCHANGED <<dispatcherVars, args, ret, cache, plain, upstream, mono, stocks, logVars>>
    \/ /\ thr[th].pc = "deactivate_ticker:commit"
       /\ stocks' = [stocks EXCEPT ![thr[th].ticker].is_active = FALSE]
       /\ removallog' = [removallog EXCEPT ![thr[th].ticker] = @ + 1]
       /\ thesislog' = [thesislog EXCEPT ![thr[th].ticker] = Append(@, thr[th].new_version)]
       /\ ret' = Response("deactivate_ticker", thr[th].ticker, 200)
       /\ thr' = [thr EXCEPT ![th] = IdleThread]
       /\ UNCHANGED <<dispatcherVars, args, cache, plain, upstream, mono, requests>>
    \/ /\ thr[th].pc = "deactivate_ticker:max_version"
       /\ LockHeld(th)
       /\ ret' = Response("deactivate_ticker", thr[th].ticker, 500)
       /\ thr' = [thr EXCEPT ![th] = IdleThread]
       /\ UNCHANGED <<dispatcherVars, args, cache, plain, upstream, mono, stocks, logVars>>

\* session.exec(max_version_stmt) first flushes the pending UPDATE of the
\* stock and INSERT of the RemovalLog, so the maximum is read under the lock
deactivate_ticker(th, symbol, limit) ==
    \/ /\ thr[th] = IdleThread
       /\ requests < limit
       /\ requests' = requests + 1
       /\ IF stocks[Upper(symbol)] = NoStock
          THEN /\ ret' = Response("deactivate_ticker", Upper(symbol), 404)
               /\ thr' = thr
          ELSE IF ~stocks[Upper(symbol)].is_active
          THEN /\ ret' = Response("deactivate_ticker", Upper(symbol), 409)
               /\ thr' = thr
          ELSE /\ thr' = [thr EXCEPT ![th] = [pc |-> "deactivate_ticker:max_version", ticker |-> Upper(symbol)]]
               /\ ret' = ret
       /\ UNCHANGED <<dispatcherVars, args, cache, plain, upstream, mono, stocks, thesislog, removallog>>
    \/ /\ thr[th].pc = "deactivate_ticker:max_version"
       /\ ~LockHeld(th)
       /\ LET max_version == MaxVersion(thesislog[thr[th].ticker])
          IN  thr' = [thr EXCEPT ![th] = [pc |-> "deactivate_ticker:commit", ticker |-> thr[th].ticker,
                                          new_version |-> (IF max_version = PyNone \/ max_version.value = 0 THEN 0 ELSE max_version.value) + 1]]
       /\ UNCHANGED <<dispatcherVars, args, ret, cache, plain, upstream, mono, stocks, logVars>>
    \/ /\ thr[th].pc = "deactivate_ticker:commit"
       /\ stocks' = [stocks EXCEPT ![thr[th].ticker].is_active = FALSE]
       /\ removallog' = [removallog EXCEPT ![thr[th].ticker] = @ + 1]
       /\ thesislog' = [thesislog EXCEPT ![thr[th].ticker] = Append(@, thr[th].new_version)]
       /\ ret' = Response("deactivate_ticker", thr[th].ticker, 200)
       /\ thr' = [thr EXCEPT ![th] = IdleThread]
       /\ UNCHANGED <<dispatcherVars, args, cache, plain, upstream, mono, requests>>
    \/ /\ thr[th].pc = "deactivate_ticker:max_version"
       /\ LockHeld(th)
       /\ ret' = Response("deactivate_ticker", thr[th].ticker, 500)
       /\ thr' = [thr EXCEPT ![th] = IdleThread]
       /\ UNCHANGED <<dispatcherVars, args, cache, plain, upstream, mono, stocks, logVars>>

\* health_check()
health_check(th, limit) ==
    /\ thr[th] = IdleThread
    /\ requests < limit
    /\ requests' = requests + 1
    /\ ret' = [fn |-> "health_check", status |-> 200]
    /\ UNCHANGED <<dispatcherVars, args, cache, plain, upstream, mono, stocks, thr, thesislog, removallog>>

\* .order_by(ThesisLog.version.desc())
RECURSIVE VersionsDesc(_)
VersionsDesc(versions) ==
    IF versions = <<>> THEN <<>>
    ELSE CHOOSE out \in {<<versions[i]>> \o VersionsDesc(SubSeq(versions, 1, i - 1) \o SubSeq(versions, i + 1, Len(versions))) : i \in {CHOOSE k \in 1..Len(versions) : versions[k] = MaxVersion(versions).value}} : TRUE

\* get_thesis_history(ticker, session): the stock, and then its logs
get_thesis_history(th, symbol, limit) ==
    \/ /\ thr[th] = IdleThread
       /\ requests < limit
       /\ requests' = requests + 1
       /\ IF stocks[Upper(symbol)] = NoStock
          THEN /\ ret' = Response("get_thesis_history", Upper(symbol), 404)
               /\ thr' = thr
          ELSE /\ thr' = [thr EXCEPT ![th] = [pc |-> "get_thesis_history:logs", ticker |-> Upper(symbol)]]
               /\ ret' = ret
       /\ UNCHANGED <<dispatcherVars, args, cache, plain, upstream, mono, stocks, thesislog, removallog>>
    \/ /\ thr[th].pc = "get_thesis_history:logs"
       /\ ret' = [fn |-> "get_thesis_history", ticker |-> thr[th].ticker, status |-> 200, versions |-> VersionsDesc(thesislog[thr[th].ticker])]
       /\ thr' = [thr EXCEPT ![th] = IdleThread]
       /\ UNCHANGED <<dispatcherVars, logVars, args, cache, plain, upstream, mono, stocks>>

\* select(Stock).where(Stock.is_active == False)
RemovedRows(table, order) ==
    LET removed == SelectSeq(order, LAMBDA t : table[t] # NoStock /\ ~table[t].is_active)
    IN  [i \in 1..Len(removed) |-> [ticker |-> removed[i], category |-> table[removed[i]].category]]

\* list_removed_stocks(session): the query for the inactive stocks, and for
\* each of them the query for its latest RemovalLog, whose reason the row of
\* the answer quotes (logged), or the word for "unknown" when it has none
list_removed_stocks(th, order, limit) ==
    \/ /\ thr[th] = IdleThread
       /\ requests < limit
       /\ requests' = requests + 1
       /\ thr' = [thr EXCEPT ![th] = [pc |-> "list_removed_stocks:latest_removal", stocks |-> RemovedRows(stocks, order), results |-> <<>>]]
       /\ UNCHANGED <<dispatcherVars, args, ret, cache, plain, upstream, mono, stocks, thesislog, removallog>>
    \/ /\ thr[th].pc = "list_removed_stocks:latest_removal"
       /\ thr[th].stocks # <<>>
       /\ \E stock \in {Head(thr[th].stocks)} :
              thr' = [thr EXCEPT ![th] = [pc |-> "list_removed_stocks:latest_removal", stocks |-> Tail(thr[th].stocks),
                                          results |-> Append(thr[th].results, [ticker |-> stock.ticker, category |-> stock.category, logged |-> removallog[stock.ticker] > 0])]]
       /\ UNCHANGED <<dispatcherVars, logVars, args, ret, cache, plain, upstream, mono, stocks>>
    \/ /\ thr[th].pc = "list_removed_stocks:latest_removal"
       /\ thr[th].stocks = <<>>
       /\ ret' = [fn |-> "list_removed_stocks", status |-> 200, results |-> thr[th].results]
       /\ thr' = [thr EXCEPT ![th] = IdleThread]
       /\ UNCHANGED <<dispatcherVars, logVars, args, cache, plain, upstream, mono, stocks>>

\* get_removal_history(ticker, session): the stock, and then its logs
get_removal_history(th, symbol, limit) ==
    \/ /\ thr[th] = IdleThread
       /\ requests < limit
       /\ requests' = requests + 1
       /\ IF stocks[Upper(symbol)] = NoStock
          THEN /\ ret' = Response("get_removal_history", Upper(symbol), 404)
               /\ thr' = thr
          ELSE /\ thr' = [thr EXCEPT ![th] = [pc |-> "get_removal_history:logs", ticker |-> Upper(symbol)]]
               /\ ret' = ret
       /\ UNCHANGED <<dispatcherVars, args, cache, plain, upstream, mono, stocks, thesislog, removallog>>
    \/ /\ thr[th].pc = "get_removal_history:logs"
       /\ ret' = [fn |-> "get_removal_history", ticker |-> thr[th].ticker, status |-> 200, logs |-> removallog[thr[th].ticker]]
       /\ thr' = [thr EXCEPT ![th] = IdleThread]
       /\ UNCHANGED <<dispatcherVars, logVars, args, cache, plain, upstream, mono, stocks>>

(***************************************************************************)
(* Python floats.  fx_analysis.py and logic.py compute in CPython floats,   *)
(* IEEE 754 binary64 with round-to-nearest-even after every operation.      *)
(*                                                                          *)
(* A natural number is its sequence of limbs, least significant first, in   *)
(* base 2^15 with no leading zero limb (0 is <<>>), so that a product of    *)
(* two limbs fits a machine integer.  A float other than zero is            *)
(*   [sign |-> 1 or -1, mant |-> a natural with exactly 53 bits, exp |-> e] *)
(* and stands for sign * mant * 2^e; zero is FZero.  Infinities, nan,       *)
(* subnormals and the sign of zero do not arise from the arguments drawn    *)
(* here and are not represented.                                            *)
(*                                                                          *)
(* A close or a rate is a whole number n standing for the float n (20000    *)
(* for 20000.0).  A value returned by round(x, 2) is a whole number D of    *)
(* hundredths standing for the float nearest to D / 100, which is what      *)
(* round returns: 149 for 1.49, 10000 for 100.0.  Rounding to the nearest   *)
(* float is monotone, so two such values compare as their hundredths do.    *)
(***************************************************************************)
LimbBits == 15      \* bits of a limb
MantBits == 53      \* bits of the significand of a binary64

RECURSIVE Pow2(_)
Pow2(k) == IF k = 0 THEN 1 ELSE 2 * Pow2(k - 1)

Base == 32768       \* 2^LimbBits: the product of two limbs fits a machine integer

RECURSIVE NatOf(_)
NatOf(n) == IF n = 0 THEN <<>> ELSE <<n % Base>> \o NatOf(n \div Base)

RECURSIVE NatToInt(_)
NatToInt(a) == IF a = <<>> THEN 0 ELSE a[1] + Base * NatToInt(Tail(a))

RECURSIVE TrimFrom(_, _)
TrimFrom(a, n) == IF n > 0 /\ a[n] = 0 THEN TrimFrom(a, n - 1) ELSE SubSeq(a, 1, n)

\* a without its leading zero limbs
Trim(a) == CHOOSE out \in {TrimFrom(x, Len(x)) : x \in {a}} : TRUE

Limb(a, i) == IF i <= Len(a) THEN a[i] ELSE 0

RECURSIVE AddFrom(_, _, _, _)
AddFrom(a, b, i, carry) ==
    IF i > Len(a) /\ i > Len(b)
    THEN IF carry = 0 THEN <<>> ELSE <<carry>>
    ELSE CHOOSE out \in {<<s % Base>> \o AddFrom(a, b, i + 1, s \div Base) : s \in {Limb(a, i) + Limb(b, i) + carry}} : TRUE

NatAdd(a, b) == CHOOSE out \in {AddFrom(x, y, 1, 0) : x \in {a}, y \in {b}} : TRUE

RECURSIVE SubFrom(_, _, _, _)
SubFrom(a, b, i, borrow) ==
    IF i > Len(a)
    THEN <<>>
    ELSE CHOOSE out \in {IF d < 0 THEN <<d + Base>> \o SubFrom(a, b, i + 1, 1) ELSE <<d>> \o SubFrom(a, b, i + 1, 0) : d \in {a[i] - Limb(b, i) - borrow}} : TRUE

\* a - b for a >= b
NatSub(a, b) == Trim(CHOOSE out \in {SubFrom(x, y, 1, 0) : x \in {a}, y \in {b}} : TRUE)

RECURSIVE CmpFrom(_, _, _)
CmpFrom(a, b, i) == IF i = 0 THEN 0 ELSE IF a[i] > b[i] THEN 1 ELSE IF a[i] < b[i] THEN -1 ELSE CmpFrom(a, b, i - 1)

\* 1, 0 or -1 as a is above, equal to or below b
NatCmp(a, b) == CHOOSE out \in {IF Len(x) > Len(y) THEN 1 ELSE IF Len(x) < Len(y) THEN -1 ELSE CmpFrom(x, y, Len(x)) : x \in {a}, y \in {b}} : TRUE

RECURSIVE MulSmallFrom(_, _, _, _)
MulSmallFrom(a, k, i, carry) ==
    IF i > Len(a)
    THEN IF carry = 0 THEN <<>> ELSE <<carry>>
    ELSE CHOOSE out \in {<<p % Base>> \o MulSmallFrom(a, k, i + 1, p \div Base) : p \in {a[i] * k + carry}} : TRUE

\* a * k for 0 <= k < 2^15
NatMulSmall(a, k) == CHOOSE out \in {IF j = 0 THEN <<>> ELSE MulSmallFrom(x, j, 1, 0) : x \in {a}, j \in {k}} : TRUE

RECURSIVE MulFrom(_, _, _)
MulFrom(a, b, i) == IF i > Len(b) THEN <<>> ELSE NatAdd(NatMulSmall(a, b[i]), IF i = Len(b) THEN <<>> ELSE <<0>> \o MulFrom(a, b, i + 1))

NatMul(a, b) == Trim(CHOOSE out \in {MulFrom(x, y, 1) : x \in {a}, y \in {b}} : TRUE)

Zeros(n) == [i \in 1..n |-> 0]

\* a * 2^n
Shl(a, n) == CHOOSE out \in {IF x = <<>> THEN <<>> ELSE Zeros(k \div LimbBits) \o NatMulSmall(x, Pow2(k % LimbBits)) : x \in {a}, k \in {n}} : TRUE

RECURSIVE DivSmallFrom(_, _, _, _)
DivSmallFrom(a, k, i, rem) == IF i = 0 THEN <<>> ELSE CHOOSE out \in {DivSmallFrom(a, k, i - 1, v % k) \o <<v \div k>> : v \in {rem * Base + a[i]}} : TRUE

\* a \div k for 0 < k <= 2^15
NatDivSmall(a, k) == Trim(CHOOSE out \in {DivSmallFrom(x, j, Len(x), 0) : x \in {a}, j \in {k}} : TRUE)

\* a \div 2^n
Shr(a, n) == CHOOSE out \in {IF k \div LimbBits >= Len(x) THEN <<>> ELSE NatDivSmall(SubSeq(x, k \div LimbBits + 1, Len(x)), Pow2(k % LimbBits)) : x \in {a}, k \in {n}} : TRUE

RECURSIVE BitLenSmall(_)
BitLenSmall(v) == IF v = 0 THEN 0 ELSE 1 + BitLenSmall(v \div 2)

\* the number of bits of a
BitLen(a) == CHOOSE out \in {IF x = <<>> THEN 0 ELSE LimbBits * (Len(x) - 1) + BitLenSmall(x[Len(x)]) : x \in {a}} : TRUE

\* bit i of a, bit 0 the least significant
Bit(a, i) == (Limb(a, i \div LimbBits + 1) \div Pow2(i % LimbBits)) % 2

\* the n low bits of a are all zero
LowZero(a, n) ==
    /\ \A i \in 1..(n \div LimbBits) : Limb(a, i) = 0
    /\ Limb(a, n \div LimbBits + 1) % Pow2(n % LimbBits) = 0

\* a / 2^n rounded to the nearest whole number, a tie to the even one
RoundShift(a, n) == CHOOSE out \in {IF k = 0 THEN x ELSE IF Bit(x, k - 1) = 1 /\ (~LowZero(x, k - 1) \/ Bit(x, k) = 1) THEN NatAdd(Shr(x, k), <<1>>) ELSE Shr(x, k) : x \in {a}, k \in {n}} : TRUE

FZero == [sign |-> 1, mant |-> <<>>, exp |-> 0]

\* a rounded significand that carried into a 54th bit is a power of two
Rounded(sign, q, e) == CHOOSE out \in {IF BitLen(x) > MantBits THEN [sign |-> sign, mant |-> Shr(x, 1), exp |-> e + 1] ELSE [sign |-> sign, mant |-> x, exp |-> e] : x \in {q}} : TRUE

\* the float nearest to sign * m * 2^e, a tie to the even significand
MakeFloat(sign, m, e) == CHOOSE out \in {IF x = <<>> THEN FZero ELSE IF BitLen(x) <= MantBits THEN [sign |-> sign, mant |-> Shl(x, MantBits - BitLen(x)), exp |-> e - (MantBits - BitLen(x))] ELSE Rounded(sign, RoundShift(x, BitLen(x) - MantBits), e + BitLen(x) - MantBits) : x \in {m}} : TRUE

\* float(n) for a whole number n
FromInt(n) == MakeFloat(IF n < 0 THEN -1 ELSE 1, NatOf(IF n < 0 THEN -n ELSE n), 0)

\* -x
FNeg(x) == CHOOSE out \in {IF a = FZero THEN a ELSE [a EXCEPT !.sign = -a.sign] : a \in {x}} : TRUE

AddAligned(sx, mx, sy, my, e) == CHOOSE out \in {IF sx = sy THEN MakeFloat(sx, NatAdd(a, b), e) ELSE IF NatCmp(a, b) >= 0 THEN MakeFloat(sx, NatSub(a, b), e) ELSE MakeFloat(sy, NatSub(b, a), e) : a \in {mx}, b \in {my}} : TRUE

\* x + y: the exact sum, rounded; an operand more than 60 binary places
\* below the other does not change it
FAdd(x, y) == CHOOSE out \in {IF a = FZero THEN b ELSE IF b = FZero THEN a ELSE IF a.exp - b.exp > 60 THEN a ELSE IF b.exp - a.exp > 60 THEN b ELSE IF a.exp < b.exp THEN AddAligned(a.sign, a.mant, b.sign, Shl(b.mant, b.exp - a.exp), a.exp) ELSE AddAligned(a.sign, Shl(a.mant, a.exp - b.exp), b.sign, b.mant, b.exp) : a \in {x}, b \in {y}} : TRUE

\* x - y
FSub(x, y) == FAdd(x, FNeg(y))

\* x * y: the exact product, rounded
FMul(x, y) == CHOOSE out \in {IF a = FZero \/ b = FZero THEN FZero ELSE MakeFloat(a.sign * b.sign, NatMul(a.mant, b.mant), a.exp + b.exp) : a \in {x}, b \in {y}} : TRUE

\* one more bit of a quotient: the remainder doubled, less d if it reaches d
DivBit(s, d) == CHOOSE out \in {IF NatCmp(r2, d) >= 0 THEN [r |-> NatSub(r2, d), q |-> Append(s.q, 1)] ELSE [r |-> r2, q |-> Append(s.q, 0)] : r2 \in {NatAdd(s.r, s.r)}} : TRUE

RECURSIVE DivBits(_, _, _)
DivBits(s, d, k) == IF k = 1 THEN DivBit(s, d) ELSE CHOOSE out \in {DivBits(t, d, k - k \div 2) : t \in {DivBits(s, d, k \div 2)}} : TRUE

\* the bits of a / b for two 53-bit significands, most significant first:
\* the whole part, 55 binary places, and a last bit that is 1 iff something
\* is left below them
Quotient(a, b) == CHOOSE out \in {Append(s.q, IF s.r = <<>> THEN 0 ELSE 1) : s \in {IF NatCmp(a, b) >= 0 THEN DivBits([r |-> NatSub(a, b), q |-> <<1>>], b, 55) ELSE DivBits([r |-> a, q |-> <<0>>], b, 55)}} : TRUE

RECURSIVE LimbOfBits(_, _, _)
LimbOfBits(b, lo, t) == IF t = LimbBits \/ lo + t > Len(b) THEN 0 ELSE b[Len(b) - lo - t + 1] * Pow2(t) + LimbOfBits(b, lo, t + 1)

NatOfBits(bits) == Trim(CHOOSE out \in {[j \in 1..((Len(b) + LimbBits - 1) \div LimbBits) |-> LimbOfBits(b, (j - 1) * LimbBits + 1, 0)] : b \in {bits}} : TRUE)

\* x / y for y other than zero: the exact quotient, rounded
FDiv(x, y) == CHOOSE out \in {IF a = FZero THEN FZero ELSE MakeFloat(a.sign * b.sign, NatOfBits(Quotient(a.mant, b.mant)), a.exp - b.exp - 56) : a \in {x}, b \in {y}} : TRUE

\* 1, 0 or -1 as x is above, equal to or below zero
FSign(x) == IF x = FZero THEN 0 ELSE x.sign

\* 1, 0 or -1 as x is above, equal to or below y
FCmp(x, y) == CHOOSE out \in {IF FSign(a) # FSign(b) THEN (IF FSign(a) > FSign(b) THEN 1 ELSE -1) ELSE IF FSign(a) = 0 THEN 0 ELSE IF a.exp # b.exp THEN (IF a.exp > b.exp THEN a.sign ELSE -a.sign) ELSE a.sign * NatCmp(a.mant, b.mant) : a \in {x}, b \in {y}} : TRUE

\* round(x, 2), in hundredths: CPython prints the exact binary value of x
\* with two decimals, correctly rounded and a tie to the even digit, and
\* reads that decimal back as a float
PyRound2(x) == CHOOSE out \in {IF a = FZero THEN 0 ELSE a.sign * NatToInt(IF a.exp >= 0 THEN Shl(NatMulSmall(a.mant, 100), a.exp) ELSE RoundShift(NatMulSmall(a.mant, 100), -a.exp)) : a \in {x}} : TRUE

(***************************************************************************)
(* domain/fx_analysis.py: rate-change alerts and the overall risk level.    *)
(*                                                                          *)
(* A percentage is a whole number of hundredths of a percent, the value of  *)
(* round(x, 2) in the source: 150 stands for 1.5.  The three thresholds and *)
(* the FXAlertType members come from domain/constants.py and                *)
(* domain/enums.py.                                                         *)
(***************************************************************************)
FX_DAILY_SPIKE_PCT == 150
FX_SHORT_TERM_SWING_PCT == 200
FX_LONG_TERM_TREND_PCT == 800
FXAlertType == {"DAILY_SPIKE", "SHORT_TERM_SWING", "LONG_TERM_TREND"}

AbsValue(x) == IF x < 0 THEN -x ELSE x

\* history[idx] for a Python index, negative ones counted from the end
PyItem(history, idx) == IF idx < 0 THEN history[Len(history) + idx + 1] ELSE history[idx + 1]

\* round(((last - first) / first) * 100, 2) for first other than zero
PercentChange(first, last) == PyRound2(FMul(FDiv(FSub(FromInt(last), FromInt(first)), FromInt(first)), FromInt(100)))

_compute_change_pct(history, start_idx, end_idx) ==
    IF Len(history) < 2
    THEN PyNone
    ELSE CHOOSE out \in {IF first <= 0 THEN PyNone ELSE PyFloat(PercentChange(first, last)) : first \in {PyItem(history, start_idx)}, last \in {PyItem(history, end_idx)}} : TRUE

_direction(pct) == IF pct > 0 THEN "up" ELSE IF pct < 0 THEN "down" ELSE "flat"

FXRateAlert(pair, alert_type, change_pct, direction, current_rate, period_label) == [pair |-> pair, alert_type |-> alert_type, change_pct |-> change_pct, direction |-> direction, current_rate |-> current_rate, period_label |-> period_label]

\* faulty variant: a change equal to the threshold raises no alert
WindowAlertAbove(pair, current_rate, history, start_idx, alert_type, threshold, period_label) ==
    IF Len(history) >= 2
    THEN CHOOSE out \in {IF pct # PyNone /\ AbsValue(pct.value) > threshold THEN <<FXRateAlert(pair, alert_type, pct.value, _direction(pct.value), current_rate, period_label)>> ELSE <<>> : pct \in {_compute_change_pct(history, start_idx, -1)}} : TRUE
    ELSE <<>>

\* one of the three blocks of analyze_fx_rate_changes: the alert of a window
\* whose change is available and reaches the threshold
WindowAlert(pair, current_rate, history, start_idx, alert_type, threshold, period_label) ==
    IF Len(history) >= 2
    THEN CHOOSE out \in {IF pct # PyNone /\ AbsValue(pct.value) >= threshold THEN <<FXRateAlert(pair, alert_type, pct.value, _direction(pct.value), current_rate, period_label)>> ELSE <<>> : pct \in {_compute_change_pct(history, start_idx, -1)}} : TRUE
    ELSE <<>>

analyze_fx_rate_changes(pair, current_rate, short_history, long_history) ==
    WindowAlert(pair, current_rate, short_history, -2, "DAILY_SPIKE", FX_DAILY_SPIKE_PCT, "1 day")
    \o WindowAlert(pair, current_rate, short_history, 0, "SHORT_TERM_SWING", FX_SHORT_TERM_SWING_PCT, "5 days")
    \o WindowAlert(pair, current_rate, long_history, 0, "LONG_TERM_TREND", FX_LONG_TERM_TREND_PCT, "3 months")

determine_fx_risk_level(all_alerts) ==
    LET alert_types == {all_alerts[i].alert_type : i \in 1..Len(all_alerts)}
    IN  IF "DAILY_SPIKE" \in alert_types THEN "high"
        ELSE IF "SHORT_TERM_SWING" \in alert_types THEN "medium"
        ELSE "low"

(***************************************************************************)
(* logic.py: _compute_rsi, for period >= 0.  Closes are whole numbers of    *)
(* price units; the deltas, the two Wilder averages and rs are floats, and  *)
(* the RSI is a whole number of hundredths (10000 stands for 100.0).        *)
(***************************************************************************)
\* [closes[i] - closes[i - 1] for i in range(1, len(closes))]
Deltas(closes) == [i \in 1..(Len(closes) - 1) |-> FSub(FromInt(closes[i + 1]), FromInt(closes[i]))]

\* d if d > 0 else 0.0 (sign = 1), -d if d < 0 else 0.0 (sign = -1)
GainOrLoss(d, sign) == CHOOSE out \in {IF sign * FSign(x) > 0 THEN (IF sign > 0 THEN x ELSE FNeg(x)) ELSE FZero : x \in {d}} : TRUE

\* sum(gains) over the first n deltas, added from the left
RECURSIVE SeedSum(_, _, _)
SeedSum(deltas, n, sign) ==
    IF n = 0
    THEN FZero
    ELSE CHOOSE out \in {FAdd(s, GainOrLoss(deltas[n], sign)) : s \in {SeedSum(deltas, n - 1, sign)}} : TRUE

\* avg = (avg * (period - 1) + gain) / period
WilderStep(avg, d, period, sign) == FDiv(FAdd(FMul(avg, FromInt(period - 1)), GainOrLoss(d, sign)), FromInt(period))

\* for d in deltas[period:], here the deltas lo to hi in their order
RECURSIVE WilderSmooth(_, _, _, _, _, _)
WilderSmooth(deltas, lo, hi, period, sign, avg) ==
    IF lo > hi
    THEN avg
    ELSE IF lo = hi
         THEN WilderStep(avg, deltas[lo], period, sign)
         ELSE CHOOSE out \in {WilderSmooth(deltas, (lo + hi) \div 2 + 1, hi, period, sign, a) : a \in {WilderSmooth(deltas, lo, (lo + hi) \div 2, period, sign, avg)}} : TRUE

\* avg_gain (sign = 1) or avg_loss (sign = -1) after the loop, for period >= 1
WilderAverage(closes, period, sign) == WilderSmooth(Deltas(closes), period + 1, Len(closes) - 1, period, sign, FDiv(SeedSum(Deltas(closes), IF period < Len(closes) - 1 THEN period ELSE Len(closes) - 1, sign), FromInt(period)))

\* rs = avg_gain / avg_loss; round(100.0 - (100.0 / (1.0 + rs)), 2)
RsiValue(avg_gain, avg_loss) == PyRound2(FSub(FromInt(100), FDiv(FromInt(100), FAdd(FromInt(1), FDiv(avg_gain, avg_loss)))))

\* faulty variant: one close too few is accepted
_compute_rsi_short(closes, period) ==
    IF Len(closes) < period
    THEN PyNone
    ELSE IF period = 0
         THEN Raises
         ELSE CHOOSE out \in {IF avg_loss = FZero THEN PyFloat(10000) ELSE PyFloat(RsiValue(avg_gain, avg_loss)) : avg_gain \in {WilderAverage(closes, period, 1)}, avg_loss \in {WilderAverage(closes, period, -1)}} : TRUE

\* faulty variant: the zero test looks at the average gain
_compute_rsi_nogain(closes, period) ==
    IF Len(closes) < period + 1
    THEN PyNone
    ELSE IF period = 0
         THEN Raises
         ELSE CHOOSE out \in {IF avg_gain = FZero THEN PyFloat(10000) ELSE IF avg_loss = FZero THEN Raises ELSE PyFloat(RsiValue(avg_gain, avg_loss)) : avg_gain \in {WilderAverage(closes, period, 1)}, avg_loss \in {WilderAverage(closes, period, -1)}} : TRUE

\* with period = 0 and a close, sum(gains) / period raises ZeroDivisionError
_compute_rsi(closes, period) ==
    IF Len(closes) < period + 1
    THEN PyNone
    ELSE IF period = 0
         THEN Raises
         ELSE CHOOSE out \in {IF avg_loss = FZero THEN PyFloat(10000) ELSE PyFloat(RsiValue(avg_gain, avg_loss)) : avg_gain \in {WilderAverage(closes, period, 1)}, avg_loss \in {WilderAverage(closes, period, -1)}} : TRUE

(***************************************************************************)
(* The FX watch store and the alert cycle                                   *)
(* (application/fx_watch_service.py, called by api/fx_watch_routes.py)      *)
(***************************************************************************)
WatchIds == {1, 2}
Cycles == {1, 2}            \* concurrent requests to POST /fx-watch/alert
NoneTime == -1              \* last_alerted_at is None
ReminderHours == {0, 24}    \* reminder_interval_hours of a watch
WatchReminder(w) == IF w = 1 THEN 24 ELSE 0
Instants == {23, 24, 25}    \* the hours, after hour 0, at which something happens

\* what the market-data provider may return for a pair
FetchSamples ==
    { <<>>,                     \* no data
      <<60, 61, 62, 63>>,       \* at the high after three increases
      <<64, 60, 61, 62>> }      \* three increases, below the high

FXWatchConfig(lookback_days, consecutive_increase_days, reminder_interval_hours, is_active, last_alerted_at) ==
    [base_currency |-> "USD", quote_currency |-> "TWD",
     lookback_days |-> lookback_days,
     consecutive_increase_days |-> consecutive_increase_days,
     reminder_interval_hours |-> reminder_interval_hours,
     is_active |-> is_active, last_alerted_at |-> last_alerted_at]

DefaultLookbackDays == 30
DefaultConsecutiveDays == 3

\* an id that has no row
NoWatch == [id |-> 0]

\* get_all_watches(session, active_only=False)
AllWatches(ws) == {w \in WatchIds : ws[w] # NoWatch}

\* get_all_watches(session, active_only=True)
ActiveWatches(ws) == {w \in AllWatches(ws) : ws[w].is_active}

\* faulty variant: suppresses at the boundary too
CooldownSuppressesInclusive(now, last_alerted_at, cooldown_hours) ==
    /\ last_alerted_at # NoneTime
    /\ now - last_alerted_at <= cooldown_hours

\* cooldown check: now - last_alerted_at < cooldown_hours
CooldownSuppresses(now, last_alerted_at, cooldown_hours) ==
    /\ last_alerted_at # NoneTime
    /\ now - last_alerted_at < cooldown_hours

\* faulty variant: notifies whatever the verdict
DispatchOutcomeAll(should_alert, suppressed) ==
    IF suppressed THEN "SUPPRESSED" ELSE "FIRED"

\* IDLE -> CANDIDATE -> FIRED | SUPPRESSED
DispatchOutcome(should_alert, suppressed) ==
    IF ~should_alert THEN "IDLE"
    ELSE IF suppressed THEN "SUPPRESSED"
    ELSE "FIRED"

\* faulty variant: stamps every candidate
CooldownUpdateCandidate(outcome, send_raised) ==
    outcome \in {"FIRED", "SUPPRESSED"}

\* the cooldown-update step runs for a fired alert whose send did not fail
CooldownUpdate(outcome, send_raised) ==
    outcome = "FIRED" /\ ~send_raised

IdleCycle ==
    [pc |-> "idle", now |-> 0, todo |-> {}, total_watches |-> 0,
     triggered_alerts |-> 0, sent_alerts |-> 0]

NoCheck == [total_watches |-> 0, alerts |-> {}]

DispatcherStart(ws) ==
    /\ watches = ws
    /\ clock = 0
    /\ cyc = [c \in Cycles |-> IdleCycle]
    /\ sends = 0
    /\ lost = 0
    /\ fires = [w \in WatchIds |-> <<>>]
    /\ writes = [w \in WatchIds |-> 0]
    /\ runs = 0
    /\ edits = 0
    /\ checked = NoCheck

\* the store holds the watches created so far, some of them switched off
Init ==
    /\ \E present \in {{1}, WatchIds} :
           \E active \in SUBSET present :
               DispatcherStart(
                   [w \in WatchIds |->
                       IF w \in present
                       THEN FXWatchConfig(DefaultLookbackDays, DefaultConsecutiveDays,
                                          WatchReminder(w), w \in active, NoneTime)
                       ELSE NoWatch])
    /\ args = NoCall
    /\ ret = NoCall
    /\ QuietScan

\* time passes
Tick(t) ==
    /\ t > clock
    /\ clock' = t
    /\ UNCHANGED <<watches, cyc, sends, lost, fires, writes, runs, edits,
                   checked, args, ret>>
    /\ UNCHANGED scanVars

\* POST /fx-watch/alert arrives (it takes the first free request slot): the
\* cycle takes its time and reads the active watches
StartCycle(c) ==
    /\ cyc[c].pc = "idle"
    /\ \A b \in Cycles : b < c => cyc[b].pc = "running"
    /\ runs < MaxRuns
    /\ runs' = runs + 1
    /\ cyc' = [cyc EXCEPT ![c] =
                 [pc |-> "running", now |-> clock,
                  todo |-> ActiveWatches(watches),
                  total_watches |-> Cardinality(ActiveWatches(watches)),
                  triggered_alerts |-> 0, sent_alerts |-> 0]]
    /\ UNCHANGED <<watches, clock, sends, lost, fires, writes, edits,
                   checked, args, ret>>
    /\ UNCHANGED scanVars

\* one watch of the cycle: classify, cooldown check, notify, cooldown update,
\* as one step on the watch's own state.  token_set and post_raises are the
\* environment of the send; they are fixed when no send is made, and nothing
\* is posted without a token.
EvalWatch(c, w, history, token_set, post_raises) ==
    /\ cyc[c].pc = "running"
    /\ w \in cyc[c].todo
    /\ watches[w] # NoWatch
    /\ \E result \in {assess_exchange_timing(
                            watches[w].base_currency, watches[w].quote_currency,
                            history, watches[w].lookback_days,
                            watches[w].consecutive_increase_days)} :
       LET watch == watches[w]
           now == cyc[c].now
           suppressed == CooldownSuppresses(now, watch.last_alerted_at,
                                            watch.reminder_interval_hours)
           outcome == DispatchOutcome(result.should_alert, suppressed)
           notify == outcome = "FIRED"
           sent == send_telegram_message(token_set, post_raises)
           update == CooldownUpdate(outcome, notify /\ sent.raised)
       IN  /\ IF notify THEN token_set \/ ~post_raises ELSE token_set /\ ~post_raises
           /\ sends' = IF notify THEN sends + 1 ELSE sends
           /\ lost' = IF notify /\ ~sent.delivered THEN lost + 1 ELSE lost
           /\ watches' = IF update
                         THEN [watches EXCEPT ![w].last_alerted_at = now]
                         ELSE watches
           /\ writes' = IF update
                        THEN [writes EXCEPT ![w] = @ + 1]
                        ELSE writes
           /\ fires' = IF notify /\ ~sent.raised
                       THEN [fires EXCEPT ![w] = Append(@, now)]
                       ELSE fires
           /\ cyc' = [cyc EXCEPT
                        ![c].todo = @ \ {w},
                        ![c].triggered_alerts =
                            IF result.should_alert THEN @ + 1 ELSE @,
                        ![c].sent_alerts =
                            IF notify /\ ~sent.raised THEN @ + 1 ELSE @]
    /\ UNCHANGED <<clock, runs, edits, checked, args, ret>>
    /\ UNCHANGED scanVars

\* the watch of the cycle has been deleted since the cycle read the active
\* watches: the cycle has nothing to evaluate and goes on
SkipWatch(c, w) ==
    /\ cyc[c].pc = "running"
    /\ w \in cyc[c].todo
    /\ watches[w] = NoWatch
    /\ cyc' = [cyc EXCEPT ![c].todo = @ \ {w}]
    /\ UNCHANGED <<watches, clock, sends, lost, fires, writes, runs, edits,
                   checked, args, ret>>
    /\ UNCHANGED scanVars

\* the cycle has gone through its watches and returns its counts
FinishCycle(c) ==
    /\ cyc[c].pc = "running"
    /\ cyc[c].todo = {}
    /\ cyc' = [cyc EXCEPT ![c] = IdleCycle]
    /\ UNCHANGED <<watches, clock, sends, lost, fires, writes, runs, edits,
                   checked, args, ret>>
    /\ UNCHANGED scanVars

\* faulty variant: the check stamps the watches it would alert on
CheckWritesStamp(ws, alerts, now) ==
    [w \in WatchIds |->
        IF w \in alerts THEN [ws[w] EXCEPT !.last_alerted_at = now] ELSE ws[w]]

\* what POST /fx-watch/check writes to the watch store: nothing
CheckWrites(ws, alerts, now) == ws

\* POST /fx-watch/check: classify every active watch, report, send nothing
CheckWatches(fetched) ==
    /\ LET active == ActiveWatches(watches)
           result(w) == assess_exchange_timing(
                            watches[w].base_currency,
                            watches[w].quote_currency, fetched[w],
                            watches[w].lookback_days,
                            watches[w].consecutive_increase_days)
           alerts == {w \in active : result(w).should_alert}
       IN  /\ checked' = [total_watches |-> Cardinality(active),
                          alerts |-> alerts]
           /\ checked' # checked
           /\ watches' = CheckWrites(watches, alerts, clock)
    /\ UNCHANGED <<clock, cyc, sends, lost, fires, writes, runs, edits,
                   args, ret>>
    /\ UNCHANGED scanVars

(***************************************************************************)
(* api/fx_watch_routes.py: the CRUD routes of the watch store.  An optional *)
(* field of a request body is <<>> when it is not given and <<v>> when it   *)
(* is.                                                                      *)
(***************************************************************************)
SetMax(S) == CHOOSE x \in S : \A y \in S : y <= x

Given(field, old) == IF field = <<>> THEN old ELSE field[1]

NotGiven == <<>>

\* the id the store gives the next row: one more than the largest in use
NextWatchId(ws) == IF AllWatches(ws) = {} THEN 1 ELSE SetMax(AllWatches(ws)) + 1

\* create_watch: a new active watch that has never alerted
create_watch(ws, lookback_days, consecutive_increase_days, reminder_interval_hours) ==
    LET id == NextWatchId(ws)
    IN  [id |-> id,
         watches |-> [w \in WatchIds |->
                         IF w = id
                         THEN FXWatchConfig(lookback_days, consecutive_increase_days,
                                            reminder_interval_hours, TRUE, NoneTime)
                         ELSE ws[w]]]

\* update_watch: sets the fields that are given; None when there is no row
update_watch(ws, watch_id, lookback_days, consecutive_increase_days, reminder_interval_hours, is_active) ==
    IF watch_id \notin AllWatches(ws)
    THEN [found |-> FALSE, watches |-> ws]
    ELSE [found |-> TRUE,
          watches |-> [ws EXCEPT ![watch_id] =
                          [@ EXCEPT
                              !.lookback_days = Given(lookback_days, @),
                              !.consecutive_increase_days = Given(consecutive_increase_days, @),
                              !.reminder_interval_hours = Given(reminder_interval_hours, @),
                              !.is_active = Given(is_active, @)]]]

\* remove_watch: deletes the row; False when there is no row
remove_watch(ws, watch_id) ==
    IF watch_id \notin AllWatches(ws)
    THEN [success |-> FALSE, watches |-> ws]
    ELSE [success |-> TRUE, watches |-> [ws EXCEPT ![watch_id] = NoWatch]]

\* the request bodies of POST /fx-watch: the defaults, or a watch that
\* reminds without a pause
CreateRequests ==
    {[lookback_days |-> DefaultLookbackDays,
      consecutive_increase_days |-> DefaultConsecutiveDays,
      reminder_interval_hours |-> h] : h \in ReminderHours}

\* the request bodies of PATCH /fx-watch/{watch_id}
UpdateRequests ==
    {[lookback_days |-> NotGiven, consecutive_increase_days |-> NotGiven,
      reminder_interval_hours |-> NotGiven, is_active |-> <<a>>] : a \in BOOLEAN}
    \cup
    {[lookback_days |-> NotGiven, consecutive_increase_days |-> NotGiven,
      reminder_interval_hours |-> <<h>>, is_active |-> NotGiven] : h \in ReminderHours}
    \cup
    {[lookback_days |-> <<2>>, consecutive_increase_days |-> <<4>>,
      reminder_interval_hours |-> NotGiven, is_active |-> NotGiven]}

\* POST /fx-watch.  fires and writes are the history of the watch that has the
\* id: they start empty for a new watch.
create_fx_watch_config(req) ==
    \E r \in {create_watch(watches, req.lookback_days, req.consecutive_increase_days,
                            req.reminder_interval_hours)} :
        /\ edits < MaxEdits
        /\ r.id \in WatchIds
        /\ edits' = edits + 1
        /\ watches' = r.watches
        /\ fires' = [fires EXCEPT ![r.id] = <<>>]
        /\ writes' = [writes EXCEPT ![r.id] = 0]
        /\ ret' = [fn |-> "create_fx_watch_config", status |-> 201, id |-> r.id]
        /\ UNCHANGED <<clock, cyc, sends, lost, runs, checked, args>>
        /\ UNCHANGED scanVars

\* PATCH /fx-watch/{watch_id}
update_fx_watch_config(watch_id, req) ==
    \E r \in {update_watch(watches, watch_id, req.lookback_days,
                            req.consecutive_increase_days,
                            req.reminder_interval_hours, req.is_active)} :
        /\ edits < MaxEdits
        /\ edits' = edits + 1
        /\ watches' = r.watches
        /\ ret' = [fn |-> "update_fx_watch_config",
                   status |-> IF r.found THEN 200 ELSE 404, id |-> watch_id]
        /\ UNCHANGED <<clock, cyc, sends, lost, fires, writes, runs, checked, args>>
        /\ UNCHANGED scanVars

\* DELETE /fx-watch/{watch_id}
delete_fx_watch_config(watch_id) ==
    \E r \in {remove_watch(watches, watch_id)} :
        /\ edits < MaxEdits
        /\ edits' = edits + 1
        /\ watches' = r.watches
        /\ ret' = [fn |-> "delete_fx_watch_config",
                   status |-> IF r.success THEN 200 ELSE 404, id |-> watch_id]
        /\ UNCHANGED <<clock, cyc, sends, lost, fires, writes, runs, checked, args>>
        /\ UNCHANGED scanVars

Next ==
    \/ \E t \in Instants : Tick(t)
    \/ \E c \in Cycles : StartCycle(c)
    \/ \E c \in Cycles, w \in WatchIds, history \in FetchSamples,
          token_set \in BOOLEAN, post_raises \in BOOLEAN :
          EvalWatch(c, w, history, token_set, post_raises)
    \/ \E c \in Cycles, w \in WatchIds : SkipWatch(c, w)
    \/ \E c \in Cycles : FinishCycle(c)
    \/ \E req \in CreateRequests : create_fx_watch_config(req)
    \/ \E w \in WatchIds, req \in UpdateRequests : update_fx_watch_config(w, req)
    \/ \E w \in WatchIds : delete_fx_watch_config(w)

Spec == Init /\ [][Next]_vars

(***************************************************************************)
(* Two alert cycles over the same watches, the evaluation of a watch taken  *)
(* apart into its steps: the cooldown read (with the classification), the   *)
(* cooldown check (with the notification) and the cooldown update.  The     *)
(* steps of the two cycles interleave in every order, and time passes       *)
(* between them.  The cycle that reads a watch holds that watch until its   *)
(* update step is done: the per-watch mutual exclusion of the alert cycle.  *)
(* The route (api/fx_watch_routes.py) takes no lock of its own.             *)
(***************************************************************************)
IdleOverlap ==
    [pc |-> "idle", now |-> 0, todo |-> {}, total_watches |-> 0,
     triggered_alerts |-> 0, sent_alerts |-> 0,
     watch |-> 0, row |-> NoWatch, should_alert |-> FALSE, outcome |-> "IDLE"]

\* faulty variant: no mutual exclusion, any cycle may read the watch
WatchLockFreeAlways(c, w) == TRUE

\* no other cycle is between its cooldown read and its cooldown update of w
WatchLockFree(c, w) == \A b \in Cycles \ {c} : cyc[b].watch # w

InitOverlap ==
    /\ \E present \in {{1}, WatchIds} :
           \E active \in SUBSET present :
               watches = [w \in WatchIds |->
                             IF w \in present
                             THEN FXWatchConfig(DefaultLookbackDays, DefaultConsecutiveDays,
                                                WatchReminder(w), w \in active, NoneTime)
                             ELSE NoWatch]
    /\ clock = 0
    /\ cyc = [c \in Cycles |-> IdleOverlap]
    /\ sends = 0
    /\ lost = 0
    /\ fires = [w \in WatchIds |-> <<>>]
    /\ writes = [w \in WatchIds |-> 0]
    /\ runs = 0
    /\ edits = 0
    /\ checked = NoCheck
    /\ args = NoCall
    /\ ret = NoCall
    /\ QuietScan

\* POST /fx-watch/alert arrives (it takes the first free request slot): the
\* cycle takes its time and reads the active watches
StartOverlap(c) ==
    /\ cyc[c].pc = "idle"
    /\ \A b \in Cycles : b < c => cyc[b].pc # "idle"
    /\ runs < MaxRuns
    /\ runs' = runs + 1
    /\ cyc' = [cyc EXCEPT ![c] =
                 [IdleOverlap EXCEPT
                     !.pc = "running", !.now = clock,
                     !.todo = ActiveWatches(watches),
                     !.total_watches = Cardinality(ActiveWatches(watches))]]
    /\ UNCHANGED <<watches, clock, sends, lost, fires, writes, edits,
                   checked, args, ret>>
    /\ UNCHANGED scanVars

\* cooldown read: the cycle takes the watch, reads its row and classifies
\* the history fetched for its pair
CooldownRead(c, w, history) ==
    /\ cyc[c].pc = "running"
    /\ w \in cyc[c].todo
    /\ WatchLockFree(c, w)
    /\ \E result \in {assess_exchange_timing(
                            watches[w].base_currency, watches[w].quote_currency,
                            history, watches[w].lookback_days,
                            watches[w].consecutive_increase_days)} :
           cyc' = [cyc EXCEPT
                      ![c].pc = "read",
                      ![c].watch = w,
                      ![c].row = watches[w],
                      ![c].should_alert = result.should_alert,
                      ![c].triggered_alerts = IF result.should_alert THEN @ + 1 ELSE @]
    /\ UNCHANGED <<watches, clock, sends, lost, fires, writes, runs, edits,
                   checked, args, ret>>
    /\ UNCHANGED scanVars

\* cooldown check on the row as read, and the notification of a watch that
\* passed it
CooldownCheck(c, token_set, post_raises) ==
    /\ cyc[c].pc = "read"
    /\ LET w == cyc[c].watch
           now == cyc[c].now
           suppressed == CooldownSuppresses(now, cyc[c].row.last_alerted_at,
                                            cyc[c].row.reminder_interval_hours)
           outcome == DispatchOutcome(cyc[c].should_alert, suppressed)
           notify == outcome = "FIRED"
           sent == send_telegram_message(token_set, post_raises)
       IN  /\ IF notify THEN token_set \/ ~post_raises ELSE token_set /\ ~post_raises
           /\ sends' = IF notify THEN sends + 1 ELSE sends
           /\ lost' = IF notify /\ ~sent.delivered THEN lost + 1 ELSE lost
           /\ fires' = IF notify /\ ~sent.raised
                       THEN [fires EXCEPT ![w] = Append(@, now)]
                       ELSE fires
           /\ cyc' = [cyc EXCEPT
                        ![c].pc = "checked",
                        ![c].outcome = outcome,
                        ![c].sent_alerts = IF notify /\ ~sent.raised THEN @ + 1 ELSE @]
    /\ UNCHANGED <<watches, clock, writes, runs, edits, checked, args, ret>>
    /\ UNCHANGED scanVars

\* cooldown update: a fired alert stamps the watch; the cycle lets the watch
\* go and moves on
CooldownWrite(c) ==
    /\ cyc[c].pc = "checked"
    /\ LET w == cyc[c].watch
           update == CooldownUpdate(cyc[c].outcome, FALSE)
       IN  /\ watches' = IF update
                         THEN [watches EXCEPT ![w].last_alerted_at = cyc[c].now]
                         ELSE watches
           /\ writes' = IF update THEN [writes EXCEPT ![w] = @ + 1] ELSE writes
           /\ cyc' = [cyc EXCEPT
                        ![c].pc = "running",
                        ![c].todo = @ \ {w},
                        ![c].watch = 0,
                        ![c].row = NoWatch,
                        ![c].should_alert = FALSE,
                        ![c].outcome = "IDLE"]
    /\ UNCHANGED <<clock, sends, lost, fires, runs, edits, checked, args, ret>>
    /\ UNCHANGED scanVars

\* the cycle has gone through its watches and returns its counts
FinishOverlap(c) ==
    /\ cyc[c].pc = "running"
    /\ cyc[c].todo = {}
    /\ cyc' = [cyc EXCEPT ![c] = IdleOverlap]
    /\ UNCHANGED <<watches, clock, sends, lost, fires, writes, runs, edits,
                   checked, args, ret>>
    /\ UNCHANGED scanVars

NextOverlap ==
    \/ \E t \in Instants : Tick(t)
    \/ \E c \in Cycles : StartOverlap(c)
    \/ \E c \in Cycles, w \in WatchIds, history \in FetchSamples : CooldownRead(c, w, history)
    \/ \E c \in Cycles, token_set \in BOOLEAN, post_raises \in BOOLEAN : CooldownCheck(c, token_set, post_raises)
    \/ \E c \in Cycles : CooldownWrite(c)
    \/ \E c \in Cycles : FinishOverlap(c)

SpecOverlap == InitOverlap /\ [][NextOverlap]_vars

(***************************************************************************)
(* POST /fx-watch/check: the store is in any state the alert cycles leave   *)
(* it in, the check runs on it, and CRUD requests change it between checks. *)
(***************************************************************************)
StampTimes == {NoneTime, 0, 23}

InitCheck ==
    /\ \E ws \in [WatchIds ->
                   {NoWatch} \cup
                   {FXWatchConfig(DefaultLookbackDays, DefaultConsecutiveDays,
                                  h, a, t) :
                       h \in ReminderHours, a \in BOOLEAN, t \in StampTimes}] :
           DispatcherStart(ws)
    /\ args = NoCall
    /\ ret = NoCall
    /\ QuietScan

NextCheck ==
    \/ \E fetched \in [WatchIds -> FetchSamples] : CheckWatches(fetched)
    \/ \E req \in CreateRequests : create_fx_watch_config(req)
    \/ \E w \in WatchIds, req \in UpdateRequests : update_fx_watch_config(w, req)
    \/ \E w \in WatchIds : delete_fx_watch_config(w)

SpecCheck == InitCheck /\ [][NextCheck]_vars

(***************************************************************************)
(* The pure functions of domain/fx_analysis.py on their own: the arguments  *)
(* are drawn from bounded sets and the function is applied to them.         *)
(* The spec's scenario [30.0, 30.5, 31.0, 31.5, 32.0] is, in half units,    *)
(* <<60, 61, 62, 63, 64>>.                                                  *)
(***************************************************************************)
Histories(closes, n) == UNION {[1..k -> closes] : k \in 0..n}

TimingCloses == 60..64
TimingLookbacks == {0, 2, 30}
TimingThresholds == {0, 3, 5}

QuietStore ==
    DispatcherStart(
        [w \in WatchIds |->
            FXWatchConfig(DefaultLookbackDays, DefaultConsecutiveDays,
                          WatchReminder(w), TRUE, NoneTime)])

InitTiming ==
    /\ QuietStore
    /\ args \in [fn : {"assess_exchange_timing"},
                  history : Histories(TimingCloses, MaxLen),
                  lookback_days : TimingLookbacks,
                  consecutive_threshold : TimingThresholds]
    /\ ret = NoCall
    /\ QuietScan

CallAssess ==
    /\ args.fn = "assess_exchange_timing"
    /\ ret = NoCall
    /\ ret' = [fn |-> args.fn,
               value |-> assess_exchange_timing(
                             "USD", "TWD", args.history, args.lookback_days,
                             args.consecutive_threshold)]
    /\ UNCHANGED <<dispatcherVars, scanVars, args>>

SpecTiming == InitTiming /\ [][CallAssess]_vars

HighCloses == {-1, 0, 49, 50, 64, 150}
HighRates == {0, 48, 49, 50, 63, 64, 123}
HighLookbacks == {0, 1, 2, 3, 30}
HighTolerances == {0, 2, 5, 18}

InitHigh ==
    /\ QuietStore
    /\ args \in [fn : {"is_recent_high"},
                  current_rate : HighRates,
                  history : Histories(HighCloses, MaxHighLen),
                  lookback_days : HighLookbacks,
                  tolerance_pct : HighTolerances]
    /\ ret = NoCall
    /\ QuietScan

CallIsRecentHigh ==
    /\ args.fn = "is_recent_high"
    /\ ret = NoCall
    /\ ret' = [fn |-> args.fn,
               value |-> is_recent_high(args.current_rate, args.history,
                                        args.lookback_days, args.tolerance_pct)]
    /\ UNCHANGED <<dispatcherVars, scanVars, args>>

SpecHigh == InitHigh /\ [][CallIsRecentHigh]_vars

CountCloses == {9, 10, 11}

InitCount ==
    /\ QuietStore
    /\ args \in [fn : {"count_consecutive_increases"},
                  history : Histories(CountCloses, MaxLen)]
    /\ ret = NoCall
    /\ QuietScan

CallCount ==
    /\ args.fn = "count_consecutive_increases"
    /\ ret = NoCall
    /\ ret' = [fn |-> args.fn,
               value |-> count_consecutive_increases(args.history)]
    /\ UNCHANGED <<dispatcherVars, scanVars, args>>

SpecCount == InitCount /\ [][CallCount]_vars

(***************************************************************************)
(* The result caches in use: calls of get_technical_signals and check_moat  *)
(* for any ticker, by two threads whose calls overlap, while time passes    *)
(* (also between the lookup of a call and its store) and the upstream data  *)
(* changes.                                                                 *)
(***************************************************************************)
Thin == Snapshot(Hist(59, 100, 50, 0, 0), NoFinancials)
Healthy == Snapshot(Hist(250, 100, 50, 90, 95), Financials(8, PyFloat(4500), PyFloat(4400)))
Weak == Snapshot(Hist(250, 80, 25, 90, 95), Financials(8, PyFloat(4000), PyFloat(4400)))
CacheSnapshots == {Down, Thin, Healthy, Weak}
CallTickers == {"NVDA", "TSM"}     \* the tickers the calls are made for

\* args.fn is the function the behaviour exercises (each has its own cache)
InitCache ==
    /\ QuietStore
    /\ args \in [fn : CachedFns]
    /\ ret = NoCall
    /\ QuietScan

NextCache ==
    \/ Elapse
    \/ \E th \in Threads, t \in CallTickers, s \in CacheSnapshots :
           args.fn = "get_technical_signals" /\ GetTechnicalSignals(th, t, s)
    \/ \E th \in Threads, t \in CallTickers, s \in CacheSnapshots :
           args.fn = "check_moat" /\ CheckMoat(th, t, s)

SpecCache == InitCache /\ [][NextCache]_vars

(***************************************************************************)
(* The same calls made on the caches as built (ttl=300) and on caches built *)
(* with ttl=0, side by side, against an upstream whose data does not change.*)
(* The two programs take their steps together: both look up, and both end   *)
(* the call once neither has a fetch to wait for.                           *)
(***************************************************************************)
\* the upstream answers for the tickers the calls are made for
FixedUpstreams == {u \in [Tickers -> CacheSnapshots] : u["AMD"] = Down}

\* the tracked stocks scan_stock is called for: two that take the technical
\* signals, or two that take the moat check
FixedTables ==
    {[t \in Tickers |-> IF t = "NVDA" THEN [category |-> "Trend_Setter", is_active |-> TRUE]
                        ELSE IF t = "TSM" THEN [category |-> "Growth", is_active |-> TRUE]
                        ELSE NoStock],
     [t \in Tickers |-> IF t \in CallTickers THEN [category |-> "Moat", is_active |-> TRUE] ELSE NoStock]}

\* args.fn is the cached function the calls of the behaviour go through
InitFixed ==
    /\ QuietStore
    /\ stocks \in FixedTables
    /\ args = [fn |-> CheckOf(stocks["NVDA"].category)]
    /\ ret = NoCall
    /\ cache = [k \in Kinds |-> EmptyTTLCache]
    /\ plain = [k \in Kinds |-> EmptyTTLCache]
    /\ upstream \in FixedUpstreams
    /\ mono = 0
    /\ StoreLogs
    /\ thr = [t \in Threads |-> IdleThread]

\* what the caller gets of the value of its call
Outcome(t, value, from) == IF from.caller = "scan_stock" THEN ScanAlerts(t, from.category, value) ELSE value

\* fn(t) in thread th of both programs: the two lookups, and then the end of
\* the call, with the fetch and the store in the program whose lookup missed
BothCall(th, fn, t, from) ==
    \/ \E cached \in {TTLGet(CacheOf(fn), t, mono)} : \E uncached \in {TTLGet(plain[KindOf(fn)], t, mono)} :
           /\ thr[th] = IdleThread
           /\ cache' = [cache EXCEPT ![KindOf(fn)] = cached.cache]
           /\ plain' = [plain EXCEPT ![KindOf(fn)] = uncached.cache]
           /\ thr' = [thr EXCEPT ![th] = [pc |-> fn \o ":fetch", ticker |-> t, cached |-> cached.value, uncached |-> uncached.value] @@ from]
           /\ UNCHANGED <<dispatcherVars, logVars, args, ret, upstream, mono, stocks>>
    \/ \E r \in {TryBlock(fn, CacheOf(fn), t, upstream[t], mono, CacheTTL)} : \E p \in {TryBlock(fn, plain[KindOf(fn)], t, upstream[t], mono, 0)} :
           /\ thr[th].pc = fn \o ":fetch"
           /\ thr[th] = [pc |-> fn \o ":fetch", ticker |-> t, cached |-> thr[th].cached, uncached |-> thr[th].uncached] @@ from
           /\ cache' = IF thr[th].cached # PyNone THEN cache ELSE [cache EXCEPT ![KindOf(fn)] = r.cache]
           /\ plain' = IF thr[th].uncached # PyNone THEN plain ELSE [plain EXCEPT ![KindOf(fn)] = p.cache]
           /\ ret' = [fn |-> IF from.caller = "scan_stock" THEN "scan_stock" ELSE fn, ticker |-> t,
                      value |-> Outcome(t, IF thr[th].cached # PyNone THEN thr[th].cached ELSE r.value, from),
                      fetched |-> thr[th].cached = PyNone,
                      plain_value |-> Outcome(t, IF thr[th].uncached # PyNone THEN thr[th].uncached ELSE p.value, from),
                      plain_fetched |-> thr[th].uncached = PyNone]
           /\ thr' = [thr EXCEPT ![th] = IdleThread]
           /\ UNCHANGED <<dispatcherVars, logVars, args, upstream, mono, stocks>>

\* get_technical_signals(t), as GET /stocks calls it
EvaluateBoth(th, t) == BothCall(th, "get_technical_signals", t, Handler)

\* scan_stock(t, category), as POST /scan calls it
ScanBoth(th, t, category) == BothCall(th, CheckOf(category), t, ScanOf(category))

NextFixed ==
    \/ Elapse
    \/ \E th \in Threads, t \in CallTickers : args.fn = "get_technical_signals" /\ EvaluateBoth(th, t)
    \/ \E th \in Threads, t \in CallTickers : ScanBoth(th, t, stocks[t].category)

SpecFixed == InitFixed /\ [][NextFixed]_vars

(***************************************************************************)
(* _signals_cache shared by threads.  POST /scan starts a daemon thread     *)
(* (api/scan_routes.py) and the request handlers run in worker threads; all *)
(* call get_technical_signals on the one module-level TTLCache, and no lock *)
(* is taken.  The cache's methods are Python code, so a thread switch can   *)
(* fall between their statements: get is "key in self" then "self[key]",    *)
(* and __setitem__ decides the size change before it writes.                *)
(***************************************************************************)
RaceAnswers == {Healthy, Down}

InitRace ==
    /\ QuietStore
    /\ args = NoCall
    /\ ret = NoCall
    /\ QuietScan

\* thread th enters get_technical_signals(t)
Call(th, t) ==
    /\ thr[th].pc = "idle"
    /\ thr' = [thr EXCEPT ![th] = [pc |-> "contains", key |-> t]]
    /\ UNCHANGED <<dispatcherVars, logVars, args, ret, cache, plain, upstream, mono, stocks>>

\* _signals_cache.get(ticker), first half: key in self
Contains(th) ==
    /\ thr[th].pc = "contains"
    /\ thr' = [thr EXCEPT ![th].pc =
                  IF TTLContains(cache.signals, thr[th].key, mono)
                  THEN "getitem" ELSE "fetch"]
    /\ UNCHANGED <<dispatcherVars, logVars, args, ret, cache, plain, upstream, mono, stocks>>

\* _signals_cache.get(ticker), second half: self[key]; a key that has gone
\* or expired since the first half raises KeyError out of the function; a
\* key that has a link becomes the most recently used
GetItem(th) ==
    LET c == cache.signals
        key == thr[th].key
        expired == \E i \in 1..Len(c.links) :
                       c.links[i].key = key /\ ~(mono < c.links[i].expires)
    IN  /\ thr[th].pc = "getitem"
        /\ thr' = [thr EXCEPT ![th] =
                      IF ~expired /\ key \in DOMAIN c.data
                      THEN [pc |-> "done", key |-> key, read |-> "hit", value |-> c.data[key]]
                      ELSE [pc |-> "done", key |-> key, read |-> "KeyError", value |-> PyNone]]
        /\ cache' = [cache EXCEPT !.signals.order = IF key \in LinkKeys(c.links) THEN MoveToEnd(@, key) ELSE @]
        /\ UNCHANGED <<dispatcherVars, logVars, args, ret, plain, upstream, mono, stocks>>

\* the fetch and the computation of the result
Fetch(th, s) ==
    LET r == FetchSignals(EmptyTTLCache, thr[th].key, s.hist, mono, CacheTTL, CacheMaxSize)
    IN  /\ thr[th].pc = "fetch"
        /\ thr' = [thr EXCEPT ![th] =
                      IF IsFailure(r.value)
                      THEN [pc |-> "done", key |-> thr[th].key, read |-> "absent", value |-> r.value]
                      ELSE [pc |-> "setitem", key |-> thr[th].key, value |-> r.value]]
        /\ UNCHANGED <<dispatcherVars, logVars, args, ret, cache, plain, upstream, mono, stocks>>

\* _signals_cache[ticker] = result, first part: expire, make room, and
\* decide diffsize; with nothing left to evict popitem raises KeyError, which
\* the except clause turns into the error result
SetItemCheck(th) ==
    LET key == thr[th].key
        e == TTLExpire(cache.signals, mono)
        room == IF key \notin DOMAIN e.data THEN MakeRoom(e, CacheMaxSize) ELSE e
        full == key \notin DOMAIN e.data /\ room.currsize + 1 > CacheMaxSize
    IN  /\ thr[th].pc = "setitem"
        /\ cache' = [cache EXCEPT !.signals = room]
        /\ thr' = [thr EXCEPT ![th] =
                      IF full
                      THEN [pc |-> "done", key |-> key, read |-> "absent", value |-> ErrSignals(key)]
                      ELSE [pc |-> "write", key |-> key, value |-> thr[th].value,
                            diffsize |-> IF key \in DOMAIN room.data THEN 0 ELSE 1]]
        /\ UNCHANGED <<dispatcherVars, logVars, args, ret, plain, upstream, mono, stocks>>

\* _signals_cache[ticker] = result, second part: the writes
SetItemWrite(th) ==
    LET c == cache.signals
        key == thr[th].key
        others == SelectSeq(c.links, LAMBDA l : l.key # key)
    IN  /\ thr[th].pc = "write"
        /\ cache' = [cache EXCEPT !.signals =
                        [data |-> [k \in DOMAIN c.data \cup {key} |->
                                      IF k = key THEN thr[th].value ELSE c.data[k]],
                         links |-> Append(others, [key |-> key, expires |-> mono + CacheTTL]),
                         order |-> MoveToEnd(c.order, key),
                         currsize |-> c.currsize + thr[th].diffsize]]
        /\ thr' = [thr EXCEPT ![th] =
                      [pc |-> "done", key |-> key, read |-> "absent", value |-> thr[th].value]]
        /\ UNCHANGED <<dispatcherVars, logVars, args, ret, plain, upstream, mono, stocks>>

\* the call returns (or its KeyError reaches the caller)
Return(th) ==
    /\ thr[th].pc = "done"
    /\ thr' = [thr EXCEPT ![th] = IdleThread]
    /\ UNCHANGED <<dispatcherVars, logVars, args, ret, cache, plain, upstream, mono, stocks>>

NextRace ==
    \/ Elapse
    \/ \E th \in Threads, t \in CallTickers : Call(th, t)
    \/ \E th \in Threads : Contains(th)
    \/ \E th \in Threads : GetItem(th)
    \/ \E th \in Threads, s \in RaceAnswers : Fetch(th, s)
    \/ \E th \in Threads : SetItemCheck(th)
    \/ \E th \in Threads : SetItemWrite(th)
    \/ \E th \in Threads : Return(th)

SpecRace == InitRace /\ [][NextRace]_vars

(***************************************************************************)
(* POST /scan and GET /stocks over a table of tracked stocks, against an    *)
(* upstream that fails for some tickers; each request runs in a thread of   *)
(* its own, so two of them overlap on the caches, and a listing leaves in   *)
(* _signals_cache what a scan then finds there.                             *)
(***************************************************************************)
MaxScans == 2       \* POST /scan and GET /stocks requests in one behaviour
ScanSnapshots == {Down, Healthy, Weak}

\* the tables of tracked stocks: an active stock of each category; an
\* inactive row, a ticker that is not tracked and an active stock; no row
ScanTables ==
    {[t \in Tickers |-> [category |-> IF t = "AMD" THEN "Growth" ELSE IF t = "NVDA" THEN "Trend_Setter" ELSE "Moat", is_active |-> TRUE]],
     [t \in Tickers |-> IF t = "AMD" THEN [category |-> "Growth", is_active |-> FALSE]
                        ELSE IF t = "NVDA" THEN NoStock
                        ELSE [category |-> "Trend_Setter", is_active |-> TRUE]],
     [t \in Tickers |-> NoStock]}

\* the upstream answers, one for each ticker a scan of the table asks for;
\* for the table of three active stocks, which the scans and listings take
\* in every order: the fetch of one stock fails and the other two answer,
\* both with findings or both without
FullUpstreams == {[t \in Tickers |-> IF t = "AMD" THEN Down ELSE Weak], [t \in Tickers |-> IF t = "NVDA" THEN Down ELSE Healthy]}
ScanUpstreams(table) == IF \A t \in Tickers : table[t].is_active THEN FullUpstreams ELSE {u \in [Tickers -> ScanSnapshots] : \A t \in Tickers : ~table[t].is_active => u[t] = Down}

InitScan ==
    /\ QuietStore
    /\ args = NoCall
    /\ ret = NoCall
    /\ cache = [k \in Kinds |-> EmptyTTLCache]
    /\ plain = [k \in Kinds |-> EmptyTTLCache]
    /\ stocks \in ScanTables
    /\ upstream \in ScanUpstreams(stocks)
    /\ mono = 0
    /\ StoreLogs
    /\ thr = [t \in Threads |-> IdleThread]

NextScan ==
    \/ Elapse
    \/ \E th \in Threads, order \in TickerOrders : run_scan(th, order, MaxScans)
    \/ \E th \in Threads, order \in TickerOrders : list_stocks(th, order, MaxScans)

SpecScan == InitScan /\ [][NextScan]_vars

(***************************************************************************)
(* scan_stock on its own: calls for one stock, starting with empty caches,  *)
(* for every category and every kind of upstream answer, a last close and   *)
(* averages of -1 and -2 included (adjusted closes can be negative).        *)
(***************************************************************************)
ScanHists == {Raises} \cup {Hist(rows, price, rsi, 90, 95) : rows \in {0, 59, 60, 199, 200}, price \in {80, 92, 100}, rsi \in {25, 30, 50}} \cup {Hist(200, price, 50, -1, -1) : price \in {-2, -1}}
ScanFins == {Raises, NoFinancials} \cup {Financials(columns, current, previous) : columns \in {4, 5}, current \in {PyNone, PyNaN, PyFloat(-1), PyFloat(4000), PyFloat(4400)}, previous \in {PyNone, PyFloat(4400)}}

InitStock ==
    /\ QuietStore
    /\ args \in [fn : {"scan_stock"}, ticker : {"NVDA"}, category : Categories,
                  hist : ScanHists, fin : ScanFins]
    /\ ret = NoCall
    /\ QuietScan

NextStock ==
    \/ Elapse
    \/ \E th \in Threads : ScanStock(th, args.ticker, args.category, Snapshot(args.hist, args.fin))

SpecStock == InitStock /\ [][NextStock]_vars

(***************************************************************************)
(* check_moat on its own: calls for one ticker, starting with an empty      *)
(* cache, for every answer of quarterly_financials.  A margin is None, nan, *)
(* or a number of hundredths of a percent, as _get_gross_margin rounds it:  *)
(* 4000 stands for 40.0 and -1 for -0.01.                                   *)
(***************************************************************************)
MoatMargins == {PyNone, PyNaN} \cup {PyFloat(m) : m \in {-1, 0, 3999, 4000, 4001, 4400}}
MoatFins == {Raises, NoFinancials} \cup {Financials(columns, current, previous) : columns \in {4, 5, 8}, current \in MoatMargins, previous \in MoatMargins}

InitMoat ==
    /\ QuietStore
    /\ args \in [fn : {"check_moat"}, ticker : {"NVDA", "TSM"}, fin : MoatFins]
    /\ ret = NoCall
    /\ QuietScan

NextMoat ==
    \/ Elapse
    \/ \E th \in Threads : CheckMoat(th, args.ticker, Snapshot(Raises, args.fin))

SpecMoat == InitMoat /\ [][NextMoat]_vars

(***************************************************************************)
(* analyze_fx_rate_changes and determine_fx_risk_level on their own.  From  *)
(* a close of 20000, a last close of 20300 is a change of exactly 1.5 %,    *)
(* 20400 of 2.0 % and 21600 of 8.0 %; 20299, 20399 and 21599 are changes    *)
(* of 1.495 %, 1.995 % and 7.995 %, half a hundredth below a threshold;     *)
(* 19700, 19701, 19600, 19601, 18400 and 18401 are the same falls.  A first *)
(* close of 0 or below has no percentage change.                            *)
(***************************************************************************)
MaxShortLen == 3    \* longest short_history drawn freely
MaxLongLen == 2     \* longest long_history drawn freely
MaxAlerts == 4      \* longest all_alerts given to determine_fx_risk_level

ChangeCloses == {-20000, 0, 20000, 20299, 20300}
ShortEnds == {19600, 19601, 19700, 19701, 20299, 20399, 20400}
LongEnds == {18400, 18401, 21599, 21600}
ShortHistories == Histories(ChangeCloses, MaxShortLen) \cup {<<20000, c>> : c \in ShortEnds} \cup {<<20000, 20000, c>> : c \in ShortEnds}
LongHistories == Histories({0, 20000, 21600}, MaxLongLen) \cup {<<20000, c>> : c \in LongEnds}

InitChanges ==
    /\ QuietStore
    /\ args \in [fn : {"analyze_fx_rate_changes"}, pair : {"USD/TWD"}, current_rate : {20300},
                  short_history : ShortHistories,
                  long_history : LongHistories]
    /\ ret = NoCall
    /\ QuietScan

CallAnalyze ==
    /\ args.fn = "analyze_fx_rate_changes"
    /\ ret = NoCall
    /\ \E alerts \in {analyze_fx_rate_changes(args.pair, args.current_rate, args.short_history, args.long_history)} :
           ret' = [fn |-> args.fn, alerts |-> alerts]
    /\ UNCHANGED <<dispatcherVars, scanVars, args>>

SpecChanges == InitChanges /\ [][CallAnalyze]_vars

\* the alerts analyze_fx_rate_changes gives for one pair, one of each type
RiskAlerts == {FXRateAlert("USD/TWD", "DAILY_SPIKE", FX_DAILY_SPIKE_PCT, "up", 20300, "1 day"), FXRateAlert("USD/TWD", "SHORT_TERM_SWING", -FX_SHORT_TERM_SWING_PCT, "down", 20300, "5 days"), FXRateAlert("USD/TWD", "LONG_TERM_TREND", FX_LONG_TERM_TREND_PCT, "up", 20300, "3 months")}

InitRisk ==
    /\ QuietStore
    /\ args \in [fn : {"determine_fx_risk_level"}, all_alerts : Histories(RiskAlerts, MaxAlerts)]
    /\ ret = NoCall
    /\ QuietScan

CallRiskLevel ==
    /\ args.fn = "determine_fx_risk_level"
    /\ ret = NoCall
    /\ ret' = [fn |-> args.fn, level |-> determine_fx_risk_level(args.all_alerts)]
    /\ UNCHANGED <<dispatcherVars, scanVars, args>>

SpecRisk == InitRisk /\ [][CallRiskLevel]_vars

(***************************************************************************)
(* _compute_rsi on its own.  Short series are drawn with periods 0 to 2:    *)
(* with period 2 the closes 2, 20000, 19999 have rs = 19998, the closes     *)
(* 1, 20000, 19999 have rs = 19999 and 1, 20001, 20000 have rs = 20000.     *)
(* The caller's period, 14, comes with 14- and 15-point series (rising by   *)
(* one unit, flat, and 10000 -> 9999 followed by rises of 2000) and with a  *)
(* series of 250 closes, the rows of a year of daily history.               *)
(***************************************************************************)
MaxRsiLen == 4      \* longest series drawn freely

RsiPeriod == 14
Rising15 == [i \in 1..15 |-> 100 + i]
RsiCloses == {1, 2, 19999, 20000, 20001}
YearCloses == [i \in 1..250 |-> 10000 + ((i * 37) % 101) * 5 - (i % 7) * 11]
RsiCalls ==
    [closes : Histories(RsiCloses, MaxRsiLen), period : 0..2]
    \cup [closes : {Rising15, SubSeq(Rising15, 1, 14),
                   [i \in 1..15 |-> 100],
                   [i \in 1..15 |-> IF i = 1 THEN 10000 ELSE 9999 + (i - 2) * 2000],
                   [i \in 1..14 |-> IF i = 1 THEN 10000 ELSE 9999 + (i - 2) * 2000],
                   YearCloses},
          period : {RsiPeriod}]

InitRsi ==
    /\ QuietStore
    /\ \E call \in RsiCalls : args = [fn |-> "_compute_rsi", closes |-> call.closes, period |-> call.period]
    /\ ret = NoCall
    /\ QuietScan

CallComputeRsi ==
    /\ args.fn = "_compute_rsi"
    /\ ret = NoCall
    /\ \E rsi \in {_compute_rsi(args.closes, args.period)} :
           ret' = [fn |-> args.fn, rsi |-> rsi]
    /\ UNCHANGED <<dispatcherVars, scanVars, args>>

SpecRsi == InitRsi /\ [][CallComputeRsi]_vars

(***************************************************************************)
(* The app of main.py on an empty database: requests to every one of its    *)
(* routes, in two threads.                                                  *)
(***************************************************************************)
MaxRequests == 3    \* requests to the app of main.py in one behaviour

\* the upstream fails for every ticker, or answers for every ticker
StoreUpstreams == {[t \in Tickers |-> Down], [t \in Tickers |-> Weak]}

InitStore ==
    /\ QuietStore
    /\ args = NoCall
    /\ ret = NoCall
    /\ cache = [k \in Kinds |-> EmptyTTLCache]
    /\ plain = [k \in Kinds |-> EmptyTTLCache]
    /\ upstream \in StoreUpstreams
    /\ mono = 0
    /\ stocks = [t \in Tickers |-> NoStock]
    /\ StoreLogs
    /\ thr = [t \in Threads |-> IdleThread]

\* the symbols the clients send
StoreSymbols == {<<"N", "V", "D", "A">>, <<"n", "v", "d", "a">>, <<"N", "v", "d", "a">>, <<"t", "s", "m">>, <<"a", "m", "d">>}

NextStore ==
    \/ \E th \in Threads : health_check(th, MaxRequests)
    \/ \E th \in Threads, symbol \in StoreSymbols, category \in Categories : create_ticker(th, symbol, category, MaxRequests)
    \/ \E th \in Threads, symbol \in StoreSymbols : create_thesis(th, symbol, MaxRequests)
    \/ \E th \in Threads, symbol \in StoreSymbols : get_thesis_history(th, symbol, MaxRequests)
    \/ \E th \in Threads, symbol \in StoreSymbols : deactivate_ticker(th, symbol, MaxRequests)
    \/ \E th \in Threads, order \in TickerOrders : list_removed_stocks(th, order, MaxRequests)
    \/ \E th \in Threads, symbol \in StoreSymbols : get_removal_history(th, symbol, MaxRequests)
    \/ \E th \in Threads, order \in TickerOrders : list_stocks(th, order, MaxRequests)
    \/ \E th \in Threads, order \in TickerOrders : run_scan(th, order, MaxRequests)

SpecStore == InitStore /\ [][NextStore]_vars

(***************************************************************************)
(* Properties                                                               *)
(***************************************************************************)

Min(a, b) == IF a <= b THEN a ELSE b

Abs(x) == IF x < 0 THEN 0 - x ELSE x

\* cycle c evaluates watch w in this step
EvalStep(c, w) ==
    /\ cyc[c].pc = "running"
    /\ w \in cyc[c].todo
    /\ cyc'[c].pc = "running"
    /\ cyc'[c].todo = cyc[c].todo \ {w}

\* ... and the classifier said should_alert (the watch is a CANDIDATE)
CandidateStep(c, w) ==
    EvalStep(c, w) /\ cyc'[c].triggered_alerts = cyc[c].triggered_alerts + 1

\* ... and the classifier said no (the watch is IDLE)
IdleStep(c, w) ==
    EvalStep(c, w) /\ cyc'[c].triggered_alerts = cyc[c].triggered_alerts

\* cycle c has gone through its watches and has not returned yet
AtReturn(c) == cyc[c].pc = "running" /\ cyc[c].todo = {}

\* C1: a CANDIDATE watch of a cycle run at time now is SUPPRESSED (nothing
\* sent, last_alerted_at unchanged) if now - last_alerted_at < cooldown
\* hours, and otherwise FIRED: a notification is sent and last_alerted_at
\* becomes now.
C1_CooldownGate ==
    [][\A c \in Cycles, w \in WatchIds :
          CandidateStep(c, w) =>
              LET now == cyc[c].now
                  last == watches[w].last_alerted_at
                  hours == watches[w].reminder_interval_hours
              IN  IF last # NoneTime /\ now - last < hours
                  THEN /\ sends' = sends
                       /\ watches'[w].last_alerted_at = last
                       /\ cyc'[c].sent_alerts = cyc[c].sent_alerts
                  ELSE /\ sends' = sends + 1
                       /\ watches'[w].last_alerted_at = now
                       /\ cyc'[c].sent_alerts = cyc[c].sent_alerts + 1]_vars

\* watch 1 (24 h) fired at hour 0 and was a suppressed candidate at hour 23
C1_Witness ==
    \E c \in Cycles :
        /\ AtReturn(c)
        /\ cyc[c].now = 23
        /\ ActiveWatches(watches) = {1}
        /\ cyc[c].triggered_alerts = 1
        /\ cyc[c].sent_alerts = 0
        /\ fires[1] = <<0>>
        /\ watches[1].last_alerted_at = 0

\* C2: when the send for a watch that passed the cooldown check fails,
\* last_alerted_at of that watch is not updated.
C2_FailedSendKeepsCooldown ==
    [][lost' = lost + 1 => watches' = watches]_vars

\* a watch with a row, its fired alerts i < j
FiredPairs(w) == {<<i, j>> \in (1..Len(fires[w])) \X (1..Len(fires[w])) : i < j}

C4_IdleNeverNotified ==
    [][/\ \A c \in Cycles, w \in WatchIds :
             IdleStep(c, w) =>
                 /\ sends' = sends
                 /\ watches' = watches
                 /\ cyc'[c].sent_alerts = cyc[c].sent_alerts
       /\ sends' # sends =>
             \E c \in Cycles, w \in WatchIds : CandidateStep(c, w)]_vars

\* a cycle went through two watches, both IDLE, and nothing was ever sent
C4_Witness ==
    \E c \in Cycles :
        /\ AtReturn(c)
        /\ cyc[c].total_watches = 2
        /\ cyc[c].triggered_alerts = 0
        /\ sends = 0

\* C5: last_alerted_at of a watch is written exactly once per fired alert of
\* that watch, and a cycle in which the watch is IDLE or SUPPRESSED leaves it
\* unchanged: it is always the time of the watch's last fired alert.
C5_WriteOncePerFire ==
    \A w \in WatchIds :
        /\ writes[w] = Len(fires[w])
        /\ w \in AllWatches(watches) =>
               watches[w].last_alerted_at =
                   IF fires[w] = <<>> THEN NoneTime
                   ELSE fires[w][Len(fires[w])]

\* watch 1 fired at hour 0; a later cycle, after the cooldown, found it IDLE
C5_Witness ==
    \E c \in Cycles :
        /\ AtReturn(c)
        /\ cyc[c].now >= 24
        /\ ActiveWatches(watches) = {1}
        /\ cyc[c].triggered_alerts = 0
        /\ fires[1] = <<0>>
        /\ writes[1] = 1
        /\ watches[1].last_alerted_at = 0

\* C6: POST /fx-watch/check has no side effects: it sends nothing and leaves
\* every field of every watch as it was, whatever the verdicts.
C6_CheckHasNoSideEffects ==
    [][checked' # checked =>
          /\ watches' = watches
          /\ sends' = sends
          /\ lost' = lost
          /\ writes' = writes]_vars

\* the check reported an alert for both watches, one of them never alerted
C6_Witness ==
    /\ checked.total_watches = 2
    /\ checked.alerts = {1, 2}
    /\ watches[1].last_alerted_at = NoneTime
    /\ watches[2].last_alerted_at = 23
    /\ sends = 0

AssessReturned == ret.fn = "assess_exchange_timing"

HighReturned == ret.fn = "is_recent_high"

\* the label the decision table gives
TableLabel(near_high, consecutive) ==
    IF near_high /\ consecutive THEN RecConsider
    ELSE IF near_high THEN RecNearHigh
    ELSE IF consecutive THEN RecRising
    ELSE RecNoSignal

ScenarioHistory == <<60, 61, 62, 63, 64>>

\* C7: for every non-empty history assess_exchange_timing sets should_alert
\* iff is_recent_high and consecutive_increases >= consecutive_threshold, and
\* its label follows the decision table in priority order; the scenario
\* [30.0 .. 32.0] (here 60 .. 64), lookback 30, threshold 3 gives near-high,
\* high 32.0 (64), four increases and an alert.
C7_DecisionTable ==
    (AssessReturned /\ args.history # <<>>) =>
        LET v == ret.value
            consecutive == v.consecutive_increases >= args.consecutive_threshold
        IN  /\ v.should_alert = (v.is_recent_high /\ consecutive)
            /\ v.recommendation_zh = TableLabel(v.is_recent_high, consecutive)
            /\ (/\ args.history = ScenarioHistory
                /\ args.lookback_days = 30
                /\ args.consecutive_threshold = 3)
               => (/\ v.is_recent_high
                   /\ v.lookback_high = 64
                   /\ v.consecutive_increases = 4
                   /\ v.should_alert)

C7_Witness ==
    /\ AssessReturned
    /\ args.history = ScenarioHistory
    /\ args.lookback_days = 30
    /\ args.consecutive_threshold = 3
    /\ ret.value.should_alert
    /\ ret.value.recommendation_zh = RecConsider

\* C8: for an empty history assess_exchange_timing returns the all-zero
\* verdict with should_alert false and the no-history label, whatever
\* lookback_days and consecutive_threshold are (threshold 0 included).
C8_EmptyHistory ==
    (AssessReturned /\ args.history = <<>>) =>
        /\ ret.value.current_rate = 0
        /\ ret.value.lookback_high = 0
        /\ ret.value.consecutive_increases = 0
        /\ ret.value.is_recent_high = FALSE
        /\ ret.value.should_alert = FALSE
        /\ ret.value.recommendation_zh = RecNoHistory
        /\ ret.value.reasoning_zh = ReasonNoHistory

C8_Witness ==
    /\ AssessReturned
    /\ args.history = <<>>
    /\ args.consecutive_threshold = 0
    /\ args.lookback_days = 0
    /\ ret.value.recommendation_zh = RecNoHistory

\* C9 as stated: is_recent_high takes the last min(len(history),
\* lookback_days) points, finds their maximum close H and returns
\* (current_rate >= H * (1 - tolerance_pct / 100), H); with H <= 0 or an empty
\* history it returns (False, 0).  The last 0 points have no close: no high
\* is found and the answer is (False, 0).
C9_RecentHigh ==
    HighReturned =>
        LET h == args.history
            n == Min(Len(h), args.lookback_days)
            H == IF n = 0 THEN 0 ELSE SetMax({h[i] : i \in (Len(h) - n + 1)..Len(h)})
        IN  IF h = <<>> \/ H <= 0
            THEN ret.value = <<FALSE, 0>>
            ELSE /\ ret.value = <<FloatAtLeast(args.current_rate, H, args.tolerance_pct), H>>
                 /\ args.current_rate * 100 > H * (100 - args.tolerance_pct) => ret.value[1]
                 /\ args.current_rate * 100 < H * (100 - args.tolerance_pct) => ~ret.value[1]

\* C9 as amended: is_recent_high takes the last min(len(history),
\* lookback_days) points when lookback_days >= 1 and the whole history when
\* lookback_days = 0, finds their maximum close H and returns
\* (current_rate >= H * (1 - tolerance_pct / 100), H); with H <= 0 or an empty
\* history it returns (False, 0).  (The comparison is made in float64, the
\* type of the three numbers: a rate above the exact threshold is near the
\* high, a rate below it is not.)
C9_RecentHighWindow ==
    HighReturned =>
        LET h == args.history
            n == IF args.lookback_days = 0 THEN Len(h) ELSE Min(Len(h), args.lookback_days)
            H == IF n = 0 THEN 0 ELSE SetMax({h[i] : i \in (Len(h) - n + 1)..Len(h)})
        IN  IF h = <<>> \/ H <= 0
            THEN ret.value = <<FALSE, 0>>
            ELSE /\ ret.value = <<FloatAtLeast(args.current_rate, H, args.tolerance_pct), H>>
                 /\ args.current_rate * 100 > H * (100 - args.tolerance_pct) => ret.value[1]
                 /\ args.current_rate * 100 < H * (100 - args.tolerance_pct) => ~ret.value[1]

\* with lookback_days = 0 the high is the high of the whole history, which
\* is not its last close, and the rate is near it
C9_Witness ==
    /\ HighReturned
    /\ args.history = <<64, 49, 50>>
    /\ args.lookback_days = 0
    /\ args.tolerance_pct = 2
    /\ args.current_rate = 63
    /\ ret.value = <<TRUE, 64>>

\* C10: is_recent_high is monotonic in the rate: if it answers true for a
\* rate, it answers true for every larger rate, with the same history,
\* lookback_days and tolerance.
C10_MonotonicInRate ==
    (HighReturned /\ ret.value[1]) =>
        \A r \in HighRates :
            r >= args.current_rate =>
                is_recent_high(r, args.history, args.lookback_days,
                               args.tolerance_pct)[1]

C10_Witness ==
    /\ HighReturned
    /\ ret.value[1]
    /\ args.current_rate = 49
    /\ args.history = <<50>>
    /\ args.tolerance_pct = 2
    /\ \E r \in HighRates : r > args.current_rate

CountReturned == ret # NoCall /\ ret.fn = "count_consecutive_increases"

\* the last k adjacent pairs of h are all strictly increasing
RisingSuffix(h, k) == \A i \in (Len(h) - k + 1)..Len(h) : h[i] > h[i - 1]

\* C11: count_consecutive_increases returns the length of the longest run of
\* strictly increasing adjacent pairs that ends at the most recent point (the
\* pair before the run, if any, is flat or decreasing); it returns 0 for a
\* history of fewer than 2 points and for the flat pair [10, 10].
C11_LongestRisingSuffix ==
    CountReturned =>
        LET h == args.history
            n == ret.value
        IN  /\ Len(h) < 2 => n = 0
            /\ h = <<10, 10>> => n = 0
            /\ Len(h) >= 2 =>
                  /\ n \in 0..(Len(h) - 1)
                  /\ RisingSuffix(h, n)
                  /\ n < Len(h) - 1 => h[Len(h) - n] <= h[Len(h) - n - 1]

\* a rising run of one pair stopped by a flat pair, with an earlier increase
\* that must not be counted
C11_Witness ==
    /\ CountReturned
    /\ args.history = <<9, 10, 10, 11>>
    /\ ret.value = 1

\* this step is the lookup of fn(t) in thread th
LookupOf(fn, th, t) == thr[th] = IdleThread /\ args.fn = fn /\ CacheLookup(th, fn, t, Handler)

HasEntry(c, key) == key \in LinkKeys(c.links)

\* seconds since the entry of key was inserted
Age(c, key) ==
    LET link == CHOOSE l \in {c.links[i] : i \in 1..Len(c.links)} : l.key = key
    IN  mono - (link.expires - CacheTTL)

\* what fn(t) computes from the upstream's answer
Fetched(fn, t, answer) ==
    IF fn = "get_technical_signals"
    THEN FetchSignals(EmptyTTLCache, t, answer.hist, 0, CacheTTL, CacheMaxSize).value
    ELSE FetchMoat(EmptyTTLCache, t, answer.fin, 0, CacheTTL, CacheMaxSize).value

\* thread th has missed in its lookup of fn(t) and is at the fetch
AtFetch(th, fn, t) == thr[th].pc = fn \o ":fetch" /\ thr[th].ticker = t

\* this step is the end of fn(t) in thread th, which had missed
FetchOf(fn, th, t) == AtFetch(th, fn, t) /\ thr'[th] = IdleThread

\* C13: once the TTL of a cache entry has elapsed (300 seconds or more since
\* its insertion), the lookup of a call for its key does not return the
\* entry: the call goes on to the upstream, and returns what it computes from
\* the upstream's answer.
C13_ExpiredEntryIsAbsent ==
    [][\A fn \in CachedFns, th \in Threads, t \in CallTickers :
          /\ (HasEntry(CacheOf(fn), t) /\ Age(CacheOf(fn), t) >= CacheTTL
                 /\ LookupOf(fn, th, t))
              => /\ AtFetch(th, fn, t)'
                 /\ ret' = ret
          /\ FetchOf(fn, th, t)
              => /\ ret'.fn = fn
                 /\ ret'.ticker = t
                 /\ ret'.fetched
                 /\ ret'.answer \in CacheSnapshots
                 /\ ret'.value = Fetched(fn, t, ret'.answer)]_vars

\* an entry exactly 300 seconds old is still in the cache's store, and the
\* call returned something else, from the upstream
C13_Witness ==
    /\ ret # NoCall
    /\ ret.fetched
    /\ HasEntry(CacheOf(ret.fn), ret.ticker)
    /\ Age(CacheOf(ret.fn), ret.ticker) = CacheTTL
    /\ CacheOf(ret.fn).data[ret.ticker] # ret.value

\* C14: a call for a key whose entry was inserted less than 300 seconds ago
\* (and is still in the cache) returns the entry's value at its lookup, does
\* not go to the upstream, and leaves every entry and its expiry as it is.
C14_FreshEntryIsReturned ==
    [][\A fn \in CachedFns, th \in Threads, t \in CallTickers :
          (HasEntry(CacheOf(fn), t) /\ Age(CacheOf(fn), t) < CacheTTL
             /\ LookupOf(fn, th, t))
          => /\ ret'.fn = fn
             /\ ret'.ticker = t
             /\ ret'.value = CacheOf(fn).data[t]
             /\ ~ret'.fetched
             /\ thr'[th] = IdleThread
             /\ \A k \in Kinds : cache'[k].data = cache[k].data /\ cache'[k].links = cache[k].links]_vars

\* the entry is 150 seconds old and the call returned it without asking the
\* upstream
C14_Witness ==
    /\ ret # NoCall
    /\ ~ret.fetched
    /\ HasEntry(CacheOf(ret.fn), ret.ticker)
    /\ Age(CacheOf(ret.fn), ret.ticker) = TimeStep
    /\ ret.value = CacheOf(ret.fn).data[ret.ticker]
    /\ ret.answer = PyNone

\* C15: a failed or data-unavailable result is never stored in a cache, and
\* the call that follows a failed call of the same function for the same
\* ticker goes to the upstream again.
C15_FailureNotCached ==
    /\ \A k \in Kinds : \A key \in DOMAIN cache[k].data :
           ~IsFailure(cache[k].data[key])
    /\ (ret # NoCall /\ ret.retry) => ret.fetched

\* C15, amended: a failed or data-unavailable result is never stored in a
\* cache, and the call that follows a failed call of the same function for
\* the same ticker goes to the upstream again, unless a call that
\* overlapped the failed one stored a result for the ticker that has not
\* expired: then it returns that result, which is not a failure.
C15_FailureNeverServed ==
    /\ \A k \in Kinds : \A key \in DOMAIN cache[k].data :
           ~IsFailure(cache[k].data[key])
    /\ (ret # NoCall /\ ret.retry /\ ~ret.fetched) =>
           /\ ret.overlap
           /\ ~IsFailure(ret.value)

\* a call failed and no other call had stored a result meanwhile; the call
\* after it fetched again and got data, which is now stored
C15_Witness ==
    /\ ret # NoCall
    /\ ret.retry
    /\ ret.fetched
    /\ ~ret.beside
    /\ ~IsFailure(ret.value)
    /\ HasEntry(CacheOf(ret.fn), ret.ticker)

\* C16: against an upstream whose data does not change, every
\* get_technical_signals and scan_stock call returns, with the caches as
\* built (ttl=300), the same result as with caches built with ttl=0.
C16_CacheTransparent ==
    (ret # NoCall /\ ret.fn \in {"get_technical_signals", "scan_stock"}) =>
        ret.value = ret.plain_value

\* a scan answered from the cache (no fetch) that raised alerts, the same
\* alerts as the scan that went to the upstream
C16_Witness ==
    /\ ret # NoCall
    /\ ret.fn = "scan_stock"
    /\ ~ret.fetched
    /\ mono > 0
    /\ Len(ret.value) = 2
    /\ ret.value = ret.plain_value

\* C17: whatever the interleaving of the threads' steps on _signals_cache,
\* the cache's bookkeeping stays consistent (one link per stored key, and
\* currsize the number of stored keys), and every lookup ends with a stored,
\* unexpired value of its key or with "absent", never with an exception.
C17_CacheSafeUnderThreads ==
    /\ LinkKeys(cache.signals.links) = DOMAIN cache.signals.data
    /\ cache.signals.currsize = Cardinality(DOMAIN cache.signals.data)
    /\ \A th \in Threads : thr[th].pc = "done" => thr[th].read # "KeyError"

ScanReturned == ret # NoCall /\ ret.fn = "run_scan"

ActiveTickers == {t \in Tickers : stocks[t].is_active}

\* the alerts of t evaluated on its own, from the upstream's answer
AloneAlerts(t) ==
    scan_stock([k \in Kinds |-> EmptyTTLCache], t, stocks[t].category, upstream[t], 0, 0, CacheTTL, CacheMaxSize).alerts

\* the result of an instrument whose fetch failed
UnavailableAlerts(t) ==
    IF stocks[t].category = "Moat"
    THEN <<Text("cannot check margin", t, 0, 0)>>
    ELSE <<Text("cannot fetch signals", t, 0, 0)>>

\* C18: a fetch error for one instrument does not abort the scan: POST /scan
\* returns one result for every active stock, the result of a stock whose
\* fetch fails is its "cannot fetch" message alone, and every other stock has
\* the alerts it has when evaluated on its own.
C18_ScanSurvivesFetchError ==
    ScanReturned =>
        /\ ~ret.aborted
        /\ Len(ret.results) = Cardinality(ActiveTickers)
        /\ {ret.results[i].ticker : i \in 1..Len(ret.results)} = ActiveTickers
        /\ \A i \in 1..Len(ret.results) :
              LET t == ret.results[i].ticker
              IN  /\ ret.results[i].category = stocks[t].category
                  /\ ret.results[i].alerts =
                        IF upstream[t] = Down THEN UnavailableAlerts(t)
                        ELSE AloneAlerts(t)

\* three active stocks: the fetch of the first scanned fails, the second has
\* both trend-setter alerts, the third the margin alert
C18_Witness ==
    /\ ScanReturned
    /\ Len(ret.results) = 3
    /\ upstream[ret.results[1].ticker] = Down
    /\ ret.results[1].alerts = UnavailableAlerts(ret.results[1].ticker)
    /\ Len(ret.results[2].alerts) = 2
    /\ ret.results[3].category = "Moat"
    /\ ret.results[3].alerts = <<Text("margin deteriorating", ret.results[3].ticker, 4000, 4400)>>

StockReturned == ret # NoCall /\ ret.caller = "scan_stock"

AlertKinds == {ret.alerts[i].kind : i \in 1..Len(ret.alerts)}

\* the messages that say that data is missing
MarkerKinds == {"insufficient history", "cannot fetch signals", "cannot check margin", "no quarterly data", "fewer than 5 quarters", "no margin data"}

\* which indicators the upstream's answer makes available
HistAvailable == args.hist # Raises /\ args.hist.rows >= MinRows
LongMAAvailable == HistAvailable /\ args.hist.rows >= LongWindow
MarginAvailable ==
    /\ args.fin # Raises
    /\ args.fin # NoFinancials
    /\ args.fin.columns >= MinQuarters
    /\ args.fin.current_margin \notin {PyNone, PyNaN}
    /\ args.fin.previous_margin \notin {PyNone, PyNaN}

\* an indicator the category's checks use is unavailable
IndicatorMissing ==
    \/ args.category = "Trend_Setter" /\ ~LongMAAvailable
    \/ args.category = "Growth" /\ ~HistAvailable
    \/ args.category = "Moat" /\ ~MarginAvailable

\* C19: an unavailable indicator raises no oversold (CONTRARIAN_BUY) and no
\* below-average or margin (THESIS_BROKEN) alert, and a scan result for which
\* an indicator of the category is unavailable carries a message saying that
\* data is missing.
C19_UnavailableIsMarked ==
    StockReturned =>
        /\ ~HistAvailable => AlertKinds \cap {"RSI oversold", "below 200MA", "below 60MA"} = {}
        /\ ~LongMAAvailable => "below 200MA" \notin AlertKinds
        /\ ~MarginAvailable => "margin deteriorating" \notin AlertKinds
        /\ IndicatorMissing => AlertKinds \cap MarkerKinds # {}

\* C20: for a trend-setter the two checks are independent and the signal is
\* THESIS_BROKEN (the below-200MA alert, without the oversold alert) whenever
\* the price is below the 200MA, CONTRARIAN_BUY (the oversold alert alone)
\* when only the RSI is below 30, and neither otherwise.
C20_ThesisBrokenFirst ==
    (StockReturned /\ args.category = "Trend_Setter" /\ LongMAAvailable) =>
        LET oversold == args.hist.rsi < Oversold
            below == args.hist.price < args.hist.mean200
        IN  /\ below => AlertKinds = {"below 200MA"}
            /\ (oversold /\ ~below) => AlertKinds = {"RSI oversold"}
            /\ (~oversold /\ ~below) => AlertKinds = {}

MoatReturned == ret # NoCall /\ ret.fn = "check_moat"

\* quarterly_financials came back with the five quarters a comparison needs
QuartersAvailable == args.fin # Raises /\ args.fin # NoFinancials /\ args.fin.columns >= MinQuarters

\* the three outcomes of the margin comparison, as check_moat's result shows them
MoatUnavailable(value) == "change" \notin DOMAIN value /\ "warning" \in DOMAIN value /\ value.warning.kind = "no margin data"
MoatDeteriorating(value) == "change" \in DOMAIN value /\ "warning" \in DOMAIN value /\ "status" \notin DOMAIN value /\ value.warning.kind = "margin deteriorating"
MoatStable(value) == "change" \in DOMAIN value /\ "status" \in DOMAIN value /\ "warning" \notin DOMAIN value /\ value.status.kind \in {"margin stable", "margin stable (nan)"}

\* C21: when the current or the year-ago margin is unavailable (None) the
\* result is the unavailable one and carries no change; otherwise change is
\* current minus previous (two decimals), and the result is the
\* deteriorating one iff change < 0, the stable one otherwise (change = 0
\* included, and a change that is nan, for which change < 0 is false).
C21_MarginEvaluator ==
    (MoatReturned /\ QuartersAvailable) =>
        IF args.fin.current_margin = PyNone \/ args.fin.previous_margin = PyNone
        THEN MoatUnavailable(ret.value)
        ELSE /\ (MarginAvailable =>
                    ret.value.change = PyFloat(args.fin.current_margin.value - args.fin.previous_margin.value))
             /\ (~MarginAvailable => ret.value.change = PyNaN)
             /\ ret.value.current_margin = args.fin.current_margin
             /\ ret.value.previous_margin = args.fin.previous_margin
             /\ Below(ret.value.change, 0) <=> MoatDeteriorating(ret.value)
             /\ ~Below(ret.value.change, 0) <=> MoatStable(ret.value)

\* an unchanged margin (40.0 against 40.0) was compared and came back stable
C21_Witness ==
    /\ MoatReturned
    /\ QuartersAvailable
    /\ args.fin.current_margin = PyFloat(4000)
    /\ args.fin.previous_margin = PyFloat(4000)
    /\ ret.fetched
    /\ ret.value.change = PyFloat(0)
    /\ MoatStable(ret.value)

RiskReturned == ret # NoCall /\ ret.fn = "determine_fx_risk_level"

AlertTypes(all_alerts) == {all_alerts[i].alert_type : i \in 1..Len(all_alerts)}

\* the order of the three levels the function returns
LevelRank(level) == IF level = "high" THEN 2 ELSE IF level = "medium" THEN 1 ELSE 0

\* C22: the level is the highest severity present, spike > swing > trend >
\* none; alerts of the long-term-trend type alone give a level strictly above
\* the level of no alerts and strictly below the level of alerts that include
\* a short-term swing.
C22_RiskLevelOrder ==
    RiskReturned =>
        /\ "DAILY_SPIKE" \in AlertTypes(args.all_alerts) => ret.level = "high"
        /\ AlertTypes(args.all_alerts) = {"LONG_TERM_TREND"} =>
               /\ LevelRank(ret.level) > LevelRank(determine_fx_risk_level(<<>>))
               /\ LevelRank(ret.level) < LevelRank(determine_fx_risk_level(<<CHOOSE a \in RiskAlerts : a.alert_type = "SHORT_TERM_SWING">>))

ChangesReturned == ret # NoCall /\ ret.fn = "analyze_fx_rate_changes"

\* the window of each alert type: its history and the position of its first point
WindowHistory(type) == IF type = "LONG_TERM_TREND" THEN args.long_history ELSE args.short_history
WindowFirst(type) == IF type = "DAILY_SPIKE" THEN WindowHistory(type)[Len(WindowHistory(type)) - 1] ELSE WindowHistory(type)[1]
WindowLast(type) == WindowHistory(type)[Len(WindowHistory(type))]
WindowThreshold(type) == IF type = "DAILY_SPIKE" THEN FX_DAILY_SPIKE_PCT ELSE IF type = "SHORT_TERM_SWING" THEN FX_SHORT_TERM_SWING_PCT ELSE FX_LONG_TERM_TREND_PCT
WindowAvailable(type) == Len(WindowHistory(type)) >= 2 /\ WindowFirst(type) > 0
WindowChange(type) == PercentChange(WindowFirst(type), WindowLast(type))

TypeRank(type) == IF type = "DAILY_SPIKE" THEN 1 ELSE IF type = "SHORT_TERM_SWING" THEN 2 ELSE 3

\* C27: each of the three windows gives exactly one alert, of its own type
\* and with its signed percentage change, iff it has at least 2 points, a
\* first close > 0 and an absolute change >= its threshold, and none
\* otherwise; the alerts come in the order spike, swing, trend.  The change
\* is the two-decimal value the floats give: it is within half a hundredth
\* of the exact 100 * (last - first) / first, and it reaches the threshold T
\* iff the exact change is above T - 0.005.
C27_OneAlertPerWindow ==
    ChangesReturned =>
        /\ \A type \in FXAlertType :
               \A hits \in {{i \in 1..Len(ret.alerts) : ret.alerts[i].alert_type = type}} :
                   /\ Cardinality(hits) <= 1
                   /\ ~WindowAvailable(type) => hits = {}
                   /\ WindowAvailable(type) =>
                          \A change \in {WindowChange(type)} :
                              /\ hits # {} <=> AbsValue(change) >= WindowThreshold(type)
                              /\ hits # {} <=> 20000 * AbsValue(WindowLast(type) - WindowFirst(type)) > (2 * WindowThreshold(type) - 1) * WindowFirst(type)
                              /\ 2 * AbsValue(change * WindowFirst(type) - 10000 * (WindowLast(type) - WindowFirst(type))) <= WindowFirst(type)
                              /\ \A i \in hits :
                                     /\ ret.alerts[i].change_pct = change
                                     /\ ret.alerts[i].direction = (IF WindowLast(type) > WindowFirst(type) THEN "up" ELSE "down")
        /\ \A i, j \in 1..Len(ret.alerts) :
               i < j => TypeRank(ret.alerts[i].alert_type) < TypeRank(ret.alerts[j].alert_type)

\* a spike of exactly 1.5 % and a trend of exactly 8.0 % were reported, the
\* 1.5 % swing of the same short history was not
C27_Witness ==
    /\ ChangesReturned
    /\ args.short_history = <<20000, 20000, 20300>>
    /\ args.long_history = <<20000, 21600>>
    /\ Len(ret.alerts) = 2
    /\ ret.alerts[1].alert_type = "DAILY_SPIKE"
    /\ ret.alerts[1].change_pct = FX_DAILY_SPIKE_PCT
    /\ ret.alerts[2].alert_type = "LONG_TERM_TREND"
    /\ ret.alerts[2].change_pct = FX_LONG_TERM_TREND_PCT

RsiReturned == ret # NoCall /\ ret.fn = "_compute_rsi"

\* C23: a series with fewer than period + 1 closes gives None, for every
\* period; the call returns (nothing is raised).
C23_ShortSeriesUnavailable ==
    (args # NoCall /\ args.fn = "_compute_rsi" /\ Len(args.closes) < args.period + 1) =>
        /\ ENABLED CallComputeRsi \/ RsiReturned
        /\ RsiReturned => ret.rsi = PyNone

\* fourteen closes with period 14 came back as None
C23_Witness ==
    /\ RsiReturned
    /\ args.period = RsiPeriod
    /\ Len(args.closes) = RsiPeriod
    /\ ret.rsi = PyNone

\* the call had the period + 1 closes the computation needs
RsiEnough == RsiReturned /\ Len(args.closes) >= args.period + 1
RsiComputed == RsiEnough /\ args.period >= 1
AvgGain == WilderAverage(args.closes, args.period, 1)
AvgLoss == WilderAverage(args.closes, args.period, -1)
HasLoss == \E i \in 1..(Len(args.closes) - 1) : args.closes[i + 1] < args.closes[i]
StrictlyIncreasing == \A i \in 1..(Len(args.closes) - 1) : args.closes[i + 1] > args.closes[i]

\* in exact arithmetic the smoothed average loss is zero iff no delta is a
\* loss or, with period 1, the last delta is none
ExactLossZero == IF args.period = 1 THEN args.closes[Len(args.closes)] >= args.closes[Len(args.closes) - 1] ELSE ~HasLoss

\* C24 as stated: with period + 1 closes or more no division by zero occurs
\* and the result is exactly 100.0 iff the smoothed average loss is exactly
\* zero; a strictly increasing 15-point series with period 14 gives 100.0
\* and a series with a loss among its deltas gives a value below 100.
C24_SaturatesOnlyAtZeroLoss ==
    RsiEnough =>
        /\ ret.rsi # Raises
        /\ RsiComputed =>
               \A avg_loss \in {AvgLoss} :
                   /\ (ret.rsi = PyFloat(10000)) <=> (avg_loss = FZero)
                   /\ (args.period = RsiPeriod /\ Len(args.closes) = 15 /\ StrictlyIncreasing) => ret.rsi = PyFloat(10000)
                   /\ HasLoss => ret.rsi.value < 10000

\* C24 as amended: for period >= 1 the result is exactly 100.0 whenever the
\* smoothed average loss is exactly zero, and nothing divides by zero
\* (strictly increasing 15-point series with period 14 included); with a
\* non-zero average loss it is round(100 - 100 / (1 + rs), 2), at most 100.0,
\* below 100 while rs is at most 19998 and 100.0 once rs is at least 19999.
\* With period 0 and a close, the seed average divides by zero.
C24_SaturatesAtZeroLoss ==
    RsiEnough =>
        /\ args.period = 0 => ret.rsi = Raises
        /\ RsiComputed =>
               \A avg_gain \in {AvgGain}, avg_loss \in {AvgLoss} :
                   /\ ret.rsi # PyNone
                   /\ ret.rsi # Raises
                   /\ (avg_loss = FZero) <=> ExactLossZero
                   /\ avg_loss = FZero => ret.rsi = PyFloat(10000)
                   /\ (args.period = RsiPeriod /\ Len(args.closes) = 15 /\ StrictlyIncreasing) => ret.rsi = PyFloat(10000)
                   /\ avg_loss # FZero =>
                          \A rs \in {FDiv(avg_gain, avg_loss)} :
                              /\ ret.rsi = PyFloat(RsiValue(avg_gain, avg_loss))
                              /\ ret.rsi.value >= 0
                              /\ ret.rsi.value <= 10000
                              /\ FCmp(rs, FromInt(19998)) <= 0 => ret.rsi.value < 10000
                              /\ FCmp(rs, FromInt(19999)) >= 0 => ret.rsi.value = 10000

\* the strictly increasing 15-point series with period 14 came back as 100.0
C24_Witness ==
    /\ RsiReturned
    /\ args.closes = Rising15
    /\ args.period = RsiPeriod
    /\ AvgLoss = FZero
    /\ ret.rsi = PyFloat(10000)

RECURSIVE CountAlerts(_)
CountAlerts(results) == IF results = <<>> THEN 0 ELSE Len(Head(results).alerts) + CountAlerts(Tail(results))

\* C25: a scan makes as many calls to the notification channel as alerts
\* fired in it, one call per alert.
C25_OneSendPerAlert ==
    (ScanReturned /\ ~ret.aborted) => ret.sends = CountAlerts(ret.results)

\* the alerts that say a check of the category found something
SignalKinds == {"RSI oversold", "below 200MA", "below 60MA", "margin deteriorating"}

\* C26: a moat stock has the margin alert iff the margin change is < 0, a
\* growth stock has the 60MA alert iff the price is below the 60MA, a
\* trend-setter has only RSI / 200MA alerts; no stock has an alert of a check
\* of another category, and without its own finding it has none of them.
C26_CategorySelectsChecks ==
    StockReturned =>
        /\ args.category = "Moat" =>
               /\ AlertKinds \cap SignalKinds \subseteq {"margin deteriorating"}
               /\ "margin deteriorating" \in AlertKinds
                      <=> (MarginAvailable /\ args.fin.current_margin.value - args.fin.previous_margin.value < 0)
        /\ args.category = "Growth" =>
               /\ AlertKinds \cap SignalKinds \subseteq {"below 60MA"}
               /\ "below 60MA" \in AlertKinds
                      <=> (HistAvailable /\ args.hist.price < args.hist.mean60)
        /\ args.category = "Trend_Setter" =>
               AlertKinds \cap SignalKinds \subseteq {"RSI oversold", "below 200MA"}

\* a growth stock below its 60MA and above its 200MA, with deteriorating
\* margins, got the 60MA alert alone
C26_Witness ==
    /\ StockReturned
    /\ args.category = "Growth"
    /\ HistAvailable
    /\ LongMAAvailable
    /\ args.hist.price = 92
    /\ MarginAvailable
    /\ args.fin.current_margin.value < args.fin.previous_margin.value
    /\ AlertKinds = {"below 60MA"}

(***************************************************************************)
(* The stock endpoints.                                                     *)
(***************************************************************************)
Versions(t) == {thesislog[t][i] : i \in 1..Len(thesislog[t])}

\* C28: after any create_ticker, create_thesis and deactivate_ticker
\* requests, requests for one ticker handled concurrently included, the
\* versions of the ThesisLogs of each ticker are pairwise distinct and are
\* exactly 1..n for its n logs.
C28_VersionsDistinct ==
    \A t \in Tickers :
        /\ \A i, j \in 1..Len(thesislog[t]) : i # j => thesislog[t][i] # thesislog[t][j]
        /\ Versions(t) = 1..Len(thesislog[t])

Tables == <<stocks, thesislog, removallog>>
Answers(th, fn, t, status) == thr'[th] = IdleThread /\ ret' = Response(fn, t, status)
Deactivated(t) ==
    /\ stocks' = [stocks EXCEPT ![t].is_active = FALSE]
    /\ removallog' = [removallog EXCEPT ![t] = @ + 1]
    /\ Len(thesislog'[t]) = Len(thesislog[t]) + 1
    /\ \A i \in 1..Len(thesislog[t]) : thesislog'[t][i] = thesislog[t][i]
    /\ \A u \in Tickers \ {t} : thesislog'[u] = thesislog[u]

\* C29: deactivate_ticker answers 404 for a ticker it does not find and 409
\* for one it finds inactive, and leaves Stock, RemovalLog and ThesisLog as
\* they were; a request that succeeds sets is_active to false and appends
\* exactly one RemovalLog and exactly one ThesisLog of that ticker; and
\* nothing else adds a RemovalLog, so a ticker has as many RemovalLogs as
\* successful deactivations.
C29_DeactivateOutcomes ==
    [][ /\ \A th \in Threads, symbol \in StoreSymbols :
              thr[th] = IdleThread /\ deactivate_ticker(th, symbol, MaxRequests) =>
                  /\ stocks[Upper(symbol)] = NoStock =>
                         Answers(th, "deactivate_ticker", Upper(symbol), 404) /\ UNCHANGED Tables
                  /\ stocks[Upper(symbol)] # NoStock /\ ~stocks[Upper(symbol)].is_active =>
                         Answers(th, "deactivate_ticker", Upper(symbol), 409) /\ UNCHANGED Tables
                  /\ stocks[Upper(symbol)].is_active => UNCHANGED Tables /\ ret' = ret
        /\ \A th \in Threads, symbol \in StoreSymbols :
              thr[th] # IdleThread /\ deactivate_ticker(th, symbol, MaxRequests) /\ thr'[th] = IdleThread =>
                  \/ ret'.status = 200 /\ Deactivated(ret'.ticker)
                  \/ ret'.status = 500 /\ UNCHANGED Tables
        /\ removallog' # removallog =>
              \E th \in Threads, symbol \in StoreSymbols :
                  /\ deactivate_ticker(th, symbol, MaxRequests)
                  /\ \E t \in Tickers : Answers(th, "deactivate_ticker", t, 200)
      ]_vars

\* a stock was tracked and deactivated, and a second request to deactivate
\* it was answered 409
C29_Witness ==
    /\ ret = Response("deactivate_ticker", "NVDA", 409)
    /\ stocks["NVDA"] # NoStock
    /\ ~stocks["NVDA"].is_active
    /\ removallog["NVDA"] = 1
    /\ Len(thesislog["NVDA"]) = 2

\* C30: create_ticker answers 409, and changes nothing, for a symbol whose
\* upper-cased form it finds in the table, active or inactive; so no
\* operation of main.py makes an inactive stock active again, and the
\* stocks a scan takes from its query, which are the ones it scans, hold no
\* stock that is inactive when the scan begins.
C30_InactiveForGood ==
    [][ /\ \A th \in Threads, symbol \in StoreSymbols, category \in Categories :
              thr[th] = IdleThread /\ create_ticker(th, symbol, category, MaxRequests) /\ stocks[Upper(symbol)] # NoStock =>
                  Answers(th, "create_ticker", Upper(symbol), 409) /\ UNCHANGED Tables
        /\ \A t \in Tickers : stocks[t] # NoStock /\ ~stocks[t].is_active => stocks'[t] = stocks[t]
        /\ \A th \in Threads, order \in TickerOrders :
              thr[th] = IdleThread /\ run_scan(th, order, MaxRequests) =>
                  \A i \in 1..Len(thr'[th].stocks) : stocks[thr'[th].stocks[i].ticker].is_active
      ]_vars

\* a stock was tracked and deactivated, and a request to track its symbol
\* again was answered 409
C30_Witness ==
    /\ ret = Response("create_ticker", "NVDA", 409)
    /\ stocks["NVDA"] # NoStock
    /\ ~stocks["NVDA"].is_active
    /\ removallog["NVDA"] = 1

====
